---- MODULE Spec2Model ----
(***************************************************************************)
(* The client-side session controller of the teleport feature:             *)
(* TownController (the roster, the socket listeners, the emit* methods)    *)
(* and PlayerController (the local player's outgoing request, incoming     *)
(* request list and location).                                             *)
(*                                                                         *)
(* One action models one socket listener or one public method, run to      *)
(* completion (JavaScript handlers never interleave).  `sent` holds the     *)
(* events the last step wrote to the socket, `notified` the events it      *)
(* dispatched on the TownController and on ourPlayer, `lastCall` the name  *)
(* of the step (and, for a step on the incoming list, the request passed). *)
(***************************************************************************)
EXTENDS Integers, Sequences, FiniteSets, TLC

VARIABLES
    players,            \* TownController._playersInternal: PlayerController[]
    ourLocation,        \* ourPlayer.location
    gameObjects,        \* ourPlayer.gameObjects is defined
    outgoingTeleport,   \* ourPlayer.outgoingTeleport
    incomingTeleports,  \* ourPlayer.incomingTeleports
    sent,               \* socket.emit calls of the last step, in order
    notified,           \* local emitter events of the last step, in order
    lastCall,           \* the listener or method that ran last
    outgoingTeleportTimer,  \* ourPlayer.outgoingTeleportTimer
    timerValue,         \* TownController._ourPlayerOutgoingTeleportTimerValue
    intervals,          \* the number of setInterval timers that are running
    timerInterval,      \* the timer _ourPlayerOutgoingTeleportTimerInterval refers to
    connected,          \* the socket is connected
    doNotDisturb,       \* ourPlayer.doNotDisturb
    conversationAreas,  \* TownController._conversationAreasInternal
    viewingAreas,       \* TownController._viewingAreas
    connectPromise,     \* the promise connect() returned
    providerVideoToken, \* TownController._providerVideoToken
    friendlyName,       \* TownController._friendlyNameInternal
    townIsPubliclyListed,  \* TownController._townIsPubliclyListedInternal
    sessionToken,       \* TownController._sessionToken
    _userID,            \* TownController._userID
    _ourPlayer,         \* TownController._ourPlayer is defined
    loginController,    \* what setTownController of the login controller was last given
    nearby,             \* the players the last call of nearbyPlayers() returned
    now,                \* Date.now(), in milliseconds
    lastRecalculatedNearbyPlayers,  \* usePlayersInVideoCall: time of the last recalculation
    prevNearbyPlayers,  \* usePlayersInVideoCall: the nearby players last set, by id
    playersInCall       \* usePlayersInVideoCall: the state the hook returns, by id

vars == <<players, ourLocation, gameObjects, outgoingTeleport, incomingTeleports,
          sent, notified, lastCall,
          outgoingTeleportTimer, timerValue, intervals, timerInterval, connected,
          doNotDisturb, conversationAreas, viewingAreas, connectPromise,
          providerVideoToken, friendlyName, townIsPubliclyListed, sessionToken,
          _userID, _ourPlayer, loginController, nearby,
          now, lastRecalculatedNearbyPlayers, prevNearbyPlayers, playersInCall>>

\* The countdown and the connection, which only the timer methods and disconnect() touch
sessionVars == <<outgoingTeleportTimer, timerValue, intervals, timerInterval, connected>>

\* The promise of connect() and what the 'initialize' snapshot sets
snapshotVars == <<connectPromise, providerVideoToken, friendlyName, townIsPubliclyListed,
                  sessionToken, _userID, _ourPlayer>>

\* The interactables
areaVars == <<conversationAreas, viewingAreas>>

\* The state the teleport negotiation, the roster events and the countdown leave alone
\* The clock and the state of the usePlayersInVideoCall hook
callVars == <<now, lastRecalculatedNearbyPlayers, prevNearbyPlayers, playersInCall>>

townVars == <<doNotDisturb, areaVars, snapshotVars, loginController, nearby, callVars>>

\* ---------------------------------------------------------------- bounds
MaxPlayers == 2
MaxTime == 1
MaxIncoming == 2
\* the largest start value of the countdown (the request button starts it at 30)
MaxStartValue == 2
\* the most setInterval timers running at once
MaxIntervals == 2
\* how far below 0 a countdown is followed
MaxOverrun == 2

\* ---------------------------------------------------------------- values
\* Date.now() when the town page is shown: far more than the delay after 1970
MountTime == 1000
PlayerIds == {"p1", "p2", "p3"}
\* TownController._userID: the id of the player who owns this controller
userID == "p3"
\* Date values of TeleportRequest.time
Times == 0 .. MaxTime

LocA == [x |-> 10, y |-> 10, rotation |-> "front", moving |-> FALSE,
         interactableID |-> "none"]
LocB == [x |-> 500, y |-> 500, rotation |-> "right", moving |-> TRUE,
         interactableID |-> "none"]
\* PlayerLocation values the server and the game scene supply
Locations == {LocA, LocB}

\* TeleportRequest as it travels on the socket
TeleportRequest == [fromPlayerId : PlayerIds, toPlayerId : PlayerIds, time : Times]

\* The outgoing union `TeleportRequest | PreviousTeleportRequestStatus`: a status
\* string (Default, Accepted, Denied, Cancelled, Timeout) or a pending request
Status(s) == [typeof |-> "string", status |-> s]
Pending(r) == [typeof |-> "object", fromPlayerId |-> r.fromPlayerId,
               toPlayerId |-> r.toPlayerId, time |-> r.time]

\* number | undefined, the type of ourPlayer.outgoingTeleportTimer
Undefined == [typeof |-> "undefined"]
Number(n) == [typeof |-> "number", value |-> n]

\* The value of a request object (its three fields, without its identity)
Wire(r) == [fromPlayerId |-> r.fromPlayerId, toPlayerId |-> r.toPlayerId, time |-> r.time]

\* A request object handed to a listener or a method: its three fields and its
\* identity.  ref: the index at which the incoming list holds this very object, 0 for
\* an object the list does not hold (a newly received one, a copy, a stale one).
Obj(w, ref) == [ref |-> ref, fromPlayerId |-> w.fromPlayerId,
                toPlayerId |-> w.toPlayerId, time |-> w.time]

\* lodash _.isEqual on two TeleportRequest objects: deep value equality
isEqual(a, b) ==
    /\ a.fromPlayerId = b.fromPlayerId
    /\ a.toPlayerId = b.toPlayerId
    /\ a.time = b.time

\* Array.prototype.indexOf(request) !== -1: strict (reference) equality
indexOfFound(list, request) == request.ref \in 1 .. Len(list)

\* Array.prototype.find(teleport => _.isEqual(teleport, request)) is defined
findEqual(list, request) == \E i \in 1 .. Len(list) : isEqual(list[i], request)

\* ---------------------------------------------------------------- PlayerController
\* addIncomingTeleport deduplicating by object identity instead of by value
addIncomingTeleportByReference(list, request) ==
    IF ~indexOfFound(list, request)
    THEN [incomingTeleports |-> Append(list, Wire(request)),
          emitted |-> <<"incomingTeleportsChange">>]
    ELSE [incomingTeleports |-> list, emitted |-> <<>>]

\* PlayerController.addIncomingTeleport: the new list and the events emitted
addIncomingTeleport(list, request) ==
    IF ~findEqual(list, request)
    THEN [incomingTeleports |-> Append(list, Wire(request)),
          emitted |-> <<"incomingTeleportsChange">>]
    ELSE [incomingTeleports |-> list, emitted |-> <<>>]

\* removeIncomingTeleport matching by object identity instead of by value
removeIncomingTeleportByReference(list, request) ==
    IF indexOfFound(list, request)
    THEN [incomingTeleports |-> SelectSeq(list, LAMBDA t : ~isEqual(t, request)),
          emitted |-> <<"incomingTeleportsChange">>]
    ELSE [incomingTeleports |-> list, emitted |-> <<>>]

\* PlayerController.removeIncomingTeleport: the new list and the events emitted
removeIncomingTeleport(list, request) ==
    IF findEqual(list, request)
    THEN [incomingTeleports |-> SelectSeq(list, LAMBDA t : ~isEqual(t, request)),
          emitted |-> <<"incomingTeleportsChange">>]
    ELSE [incomingTeleports |-> list, emitted |-> <<>>]

\* ---------------------------------------------------------------- initial state
\* A PlayerController of the roster.  isOurPlayer: the object is _ourPlayer.
\* sharesLocation: its location is the very object ourPlayer.location is.
\* doNotDisturb is the field of a remote player's object, as a new PlayerController
\* has it.  A new PlayerController has no outgoingTeleportTimer property: the record
\* has the field once a number is assigned to it.  The doNotDisturb and the
\* outgoingTeleportTimer of ourPlayer are the variables of these names, and its
\* roster entry's are not read.
Player(id, location, isOurPlayer, sharesLocation) ==
    [id |-> id, location |-> location, isOurPlayer |-> isOurPlayer,
     sharesLocation |-> sharesLocation, doNotDisturb |-> FALSE]

\* player.outgoingTeleportTimer, read: undefined while the property is not set
outgoingTeleportTimerOf(player) ==
    IF "outgoingTeleportTimer" \in DOMAIN player
    THEN player.outgoingTeleportTimer
    ELSE Undefined

\* player.outgoingTeleportTimer = state
setOutgoingTeleportTimer(player, state) ==
    IF state = Undefined
    THEN [id |-> player.id, location |-> player.location,
          isOurPlayer |-> player.isOurPlayer, sharesLocation |-> player.sharesLocation,
          doNotDisturb |-> player.doNotDisturb]
    ELSE [id |-> player.id, location |-> player.location,
          isOurPlayer |-> player.isOurPlayer, sharesLocation |-> player.sharesLocation,
          doNotDisturb |-> player.doNotDisturb, outgoingTeleportTimer |-> state]

\* PlayerController.fromPlayerModel
fromPlayerModel(id, location) == Player(id, location, FALSE, FALSE)

\* initialData.currentPlayers of the 'initialize' snapshot: distinct ids, ours among them
InitialRosters ==
    {<<Player(userID, LocA, TRUE, TRUE)>>}
    \cup {<<Player(userID, LocA, TRUE, TRUE), fromPlayerModel(p, LocA)>> :
            p \in PlayerIds \ {userID}}

\* The controller once connect() has resolved on the 'initialize' snapshot, but for
\* the roster and the interactables
InitTown ==
    /\ ourLocation = LocA
    /\ gameObjects = FALSE
    /\ outgoingTeleport = Status("Default")
    /\ incomingTeleports = <<>>
    /\ sent = <<>>
    /\ notified = <<>>
    /\ lastCall = [op |-> "connect"]
    /\ outgoingTeleportTimer = Undefined
    /\ timerValue = 0
    /\ intervals = 0
    /\ timerInterval = "undefined"
    /\ connected = TRUE
    /\ doNotDisturb = FALSE
    /\ connectPromise = "resolved"
    /\ providerVideoToken = "videoToken"
    /\ friendlyName = "town"
    /\ townIsPubliclyListed = TRUE
    /\ sessionToken = "sessionToken"
    /\ _userID = userID
    /\ _ourPlayer = "defined"
    /\ loginController = "townController"
    /\ nearby = <<>>
    /\ now = MountTime
    /\ lastRecalculatedNearbyPlayers = 0
    /\ prevNearbyPlayers = <<>>
    /\ playersInCall = <<>>

\* The controller once connect() has resolved on a snapshot without interactables
Init ==
    /\ InitTown
    /\ players \in InitialRosters
    /\ conversationAreas = <<>>
    /\ viewingAreas = <<>>

\* ---------------------------------------------------------------- incoming requests
\* The teleportRequest listener without the comparison of the addressee
teleportRequestAnyAddressee(request) ==
    /\ lastCall' = [op |-> "teleportRequest", request |-> request]
    /\ sent' = <<>>
    /\ LET r == addIncomingTeleport(incomingTeleports, Obj(request, 0))
       IN  /\ Len(r.incomingTeleports) <= MaxIncoming
           /\ incomingTeleports' = r.incomingTeleports
           /\ notified' = r.emitted
    /\ UNCHANGED <<players, ourLocation, gameObjects, outgoingTeleport>>
    /\ UNCHANGED sessionVars
    /\ UNCHANGED townVars

\* socket.on('teleportRequest')
teleportRequest(request) ==
    /\ lastCall' = [op |-> "teleportRequest", request |-> request]
    /\ sent' = <<>>
    /\ IF request.toPlayerId = userID
       THEN LET r == addIncomingTeleport(incomingTeleports,
                                         Obj(request, 0))
            IN  /\ Len(r.incomingTeleports) <= MaxIncoming
                /\ incomingTeleports' = r.incomingTeleports
                /\ notified' = r.emitted
       ELSE /\ incomingTeleports' = incomingTeleports
            /\ notified' = <<>>
    /\ UNCHANGED <<players, ourLocation, gameObjects, outgoingTeleport>>
    /\ UNCHANGED sessionVars
    /\ UNCHANGED townVars

\* socket.on('teleportCanceled')
teleportCanceled(request) ==
    /\ lastCall' = [op |-> "teleportCanceled", request |-> request]
    /\ sent' = <<>>
    /\ IF request.toPlayerId = userID
       THEN LET r == removeIncomingTeleport(incomingTeleports,
                                            Obj(request, 0))
            IN  /\ incomingTeleports' = r.incomingTeleports
                /\ notified' = r.emitted
       ELSE /\ incomingTeleports' = incomingTeleports
            /\ notified' = <<>>
    /\ UNCHANGED <<players, ourLocation, gameObjects, outgoingTeleport>>
    /\ UNCHANGED sessionVars
    /\ UNCHANGED townVars

\* respondTeleport without the presence check
respondTeleportUnchecked(event, request) ==
    LET r == removeIncomingTeleport(incomingTeleports, request)
    IN  /\ incomingTeleports' = r.incomingTeleports
        /\ notified' = r.emitted
        /\ sent' = <<[event |-> event, request |-> Wire(request)]>>

\* The body emitTeleportAccepted and emitTeleportDenied share: `event` is sent and the
\* request removed if the list holds the object, teleportFailed is sent otherwise
respondTeleport(event, request) ==
    IF indexOfFound(incomingTeleports, request)
    THEN LET r == removeIncomingTeleport(incomingTeleports, request)
         IN  /\ incomingTeleports' = r.incomingTeleports
             /\ notified' = r.emitted
             /\ sent' = <<[event |-> event, request |-> Wire(request)]>>
    ELSE /\ incomingTeleports' = incomingTeleports
         /\ notified' = <<>>
         /\ sent' = <<[event |-> "teleportFailed", request |-> Wire(request)]>>

\* TownController.emitTeleportAccepted
emitTeleportAccepted(request) ==
    /\ lastCall' = [op |-> "emitTeleportAccepted", request |-> request]
    /\ respondTeleport("teleportAccepted", request)
    /\ UNCHANGED <<players, ourLocation, gameObjects, outgoingTeleport>>
    /\ UNCHANGED sessionVars
    /\ UNCHANGED townVars

\* TownController.emitTeleportDenied
emitTeleportDenied(request) ==
    /\ lastCall' = [op |-> "emitTeleportDenied", request |-> request]
    /\ respondTeleport("teleportDenied", request)
    /\ UNCHANGED <<players, ourLocation, gameObjects, outgoingTeleport>>
    /\ UNCHANGED sessionVars
    /\ UNCHANGED townVars

\* The objects a caller can pass to emitTeleportAccepted / emitTeleportDenied:
\* an object of the incoming list, or any other object (a copy, a stale one)
CallerRequests ==
    {Obj(incomingTeleports[i], i) : i \in 1 .. Len(incomingTeleports)}
    \cup {Obj(w, 0) : w \in {t \in TeleportRequest : t.toPlayerId = userID}}

NextIncoming ==
    \/ \E request \in TeleportRequest : teleportRequest(request)
    \/ \E request \in TeleportRequest : teleportCanceled(request)
    \/ \E request \in CallerRequests : emitTeleportAccepted(request)
    \/ \E request \in CallerRequests : emitTeleportDenied(request)

\* The incoming list is independent of the roster: one snapshot suffices
InitIncoming == Init /\ Len(players) = 1

SpecIncoming == InitIncoming /\ [][NextIncoming]_vars

\* ---------------------------------------------------------------- roster
\* TownController._playersByIDs
_playersByIDs(playerIDs) == SelectSeq(players, LAMBDA eachPlayer : eachPlayer.id \in playerIDs)

\* _playerInSession without the roster lookup
_playerInSessionUnchecked(playerId) == TRUE

\* TownController._playerInSession
_playerInSession(playerId) == Len(_playersByIDs({playerId})) = 1

\* Array.prototype.find(eachPlayer => eachPlayer.id === id): the first index, 0 if none
findPlayer(id) ==
    IF \E i \in 1 .. Len(players) : players[i].id = id
    THEN CHOOSE i \in 1 .. Len(players) :
             /\ players[i].id = id
             /\ \A j \in 1 .. (i - 1) : players[j].id # id
    ELSE 0

\* The roster after ourPlayer.location was assigned the object `newLocation`.
\* target: the roster index whose location object it is, 0 for a new object.
assignOurLocation(newLocation, target) ==
    [i \in 1 .. Len(players) |->
        IF players[i].isOurPlayer
        THEN [players[i] EXCEPT !.location = newLocation]
        ELSE IF target # 0 /\ players[target].sharesLocation
        THEN players[i]
        ELSE IF i = target
        THEN [players[i] EXCEPT !.sharesLocation = TRUE]
        ELSE [players[i] EXCEPT !.sharesLocation = FALSE]]

\* The names of the events of a sequence of dispatches, in order
eventsOf(dispatched) == [k \in 1 .. Len(dispatched) |-> dispatched[k].event]

\* `private set _players` assigning the roster before it emits
set_playersAssignsFirst(roster, newPlayers) ==
    [dispatched |-> <<[event |-> "playersChanged", payload |-> newPlayers,
                       players |-> newPlayers]>>,
     players |-> newPlayers]

\* `private set _players`, called with the controller's roster being `roster`:
\* playersChanged is emitted with the new roster, then the roster is replaced.
\* A dispatch records the event, its payload and what a listener that reads
\* controller.players during the callback gets.
set_players(roster, newPlayers) ==
    [dispatched |-> <<[event |-> "playersChanged", payload |-> newPlayers,
                       players |-> roster]>>,
     players |-> newPlayers]

\* this.emit('playerMoved', player), player being entry `index` of the controller's
\* roster `roster`
emitPlayerMoved(roster, index) ==
    <<[event |-> "playerMoved", payload |-> roster[index], players |-> roster]>>

\* The playerJoined listener run on `roster`: the roster it leaves and its dispatches
playerJoinedListener(roster, newPlayer) ==
    LET newPlayerObj == fromPlayerModel(newPlayer.id, newPlayer.location)
        set == set_players(roster, Append(roster, newPlayerObj))
    IN  [players |-> set.players,
         dispatched |-> set.dispatched \o emitPlayerMoved(set.players, Len(set.players))]

\* The playerDisconnect listener run on `roster`
playerDisconnectListener(roster, disconnectedPlayer) ==
    set_players(roster,
                SelectSeq(roster, LAMBDA eachPlayer : eachPlayer.id # disconnectedPlayer))

\* socket.on('playerJoined')
playerJoined(newPlayer) ==
    /\ Len(players) < MaxPlayers
    /\ lastCall' = [op |-> "playerJoined"]
    /\ players' = playerJoinedListener(players, newPlayer).players
    /\ notified' = eventsOf(playerJoinedListener(players, newPlayer).dispatched)
    /\ sent' = <<>>
    /\ UNCHANGED <<ourLocation, gameObjects, outgoingTeleport, incomingTeleports>>
    /\ UNCHANGED sessionVars
    /\ UNCHANGED townVars

\* socket.on('playerDisconnect')
playerDisconnect(disconnectedPlayer) ==
    /\ lastCall' = [op |-> "playerDisconnect"]
    /\ players' = playerDisconnectListener(players, disconnectedPlayer).players
    /\ notified' = eventsOf(playerDisconnectListener(players, disconnectedPlayer).dispatched)
    /\ sent' = <<>>
    /\ UNCHANGED <<ourLocation, gameObjects, outgoingTeleport, incomingTeleports>>
    /\ UNCHANGED sessionVars
    /\ UNCHANGED townVars

\* Array.prototype.find(eachPlayer => eachPlayer.id === id) on a given roster: the
\* first index, 0 if none
findPlayerIn(roster, id) ==
    IF \E i \in 1 .. Len(roster) : roster[i].id = id
    THEN CHOOSE i \in 1 .. Len(roster) :
             /\ roster[i].id = id
             /\ \A j \in 1 .. (i - 1) : roster[j].id # id
    ELSE 0

\* The playerMoved listener taking our whole location from the server
ourPlayerMovedWhole(location, movedLocation) == movedLocation

\* What the playerMoved listener does to the location object of our player:
\* interactableID is written in place and nothing else
ourPlayerMoved(location, movedLocation) ==
    [location EXCEPT !.interactableID = movedLocation.interactableID]

\* ourPlayer.location after the playerMoved listener has run on `roster`
playerMovedOurLocation(roster, location, movedPlayer) ==
    LET playerToUpdate == findPlayerIn(roster, movedPlayer.id)
    IN  IF playerToUpdate # 0 /\ roster[playerToUpdate].isOurPlayer
        THEN ourPlayerMoved(location, movedPlayer.location)
        ELSE location

\* The roster after the playerMoved listener has run on `roster`.  Our location
\* object is written in place: every player that holds the object sees it.
playerMovedPlayers(roster, movedPlayer) ==
    LET playerToUpdate == findPlayerIn(roster, movedPlayer.id)
    IN  IF playerToUpdate # 0
        THEN IF roster[playerToUpdate].isOurPlayer
             THEN [i \in 1 .. Len(roster) |->
                      IF roster[i].sharesLocation
                      THEN [roster[i] EXCEPT !.location =
                                ourPlayerMoved(roster[i].location, movedPlayer.location)]
                      ELSE roster[i]]
             ELSE [roster EXCEPT ![playerToUpdate].location = movedPlayer.location,
                                 ![playerToUpdate].sharesLocation = FALSE]
        ELSE set_players(roster, Append(roster, fromPlayerModel(movedPlayer.id,
                                                                 movedPlayer.location))).players

\* The dispatches of the playerMoved listener run on `roster`: playerMoved is emitted
\* with the player once its location was written, after playersChanged when the
\* player was not in the roster
playerMovedDispatched(roster, movedPlayer) ==
    LET playerToUpdate == findPlayerIn(roster, movedPlayer.id)
        moved == playerMovedPlayers(roster, movedPlayer)
    IN  IF playerToUpdate # 0
        THEN emitPlayerMoved(moved, playerToUpdate)
        ELSE set_players(roster, moved).dispatched \o emitPlayerMoved(moved, Len(moved))

\* socket.on('playerMoved')
playerMoved(movedPlayer) ==
    LET playerToUpdate == findPlayer(movedPlayer.id)
    IN  /\ lastCall' = [op |-> "playerMoved"]
        /\ sent' = <<>>
        /\ playerToUpdate = 0 => Len(players) < MaxPlayers
        /\ players' = playerMovedPlayers(players, movedPlayer)
        /\ ourLocation' = playerMovedOurLocation(players, ourLocation, movedPlayer)
        /\ notified' = eventsOf(playerMovedDispatched(players, movedPlayer))
        /\ UNCHANGED <<gameObjects, outgoingTeleport, incomingTeleports>>
        /\ UNCHANGED sessionVars
        /\ UNCHANGED townVars

\* TownController.emitMovement, called by the game scene with a new location object
emitMovement(newLocation) ==
    /\ lastCall' = [op |-> "emitMovement"]
    /\ sent' = <<[event |-> "playerMovement", location |-> newLocation]>>
    /\ ourLocation' = newLocation
    /\ players' = assignOurLocation(newLocation, 0)
    /\ notified' = <<"movement", "playerMoved">>
    /\ UNCHANGED <<gameObjects, outgoingTeleport, incomingTeleports>>
    /\ UNCHANGED sessionVars
    /\ UNCHANGED townVars

\* PlayerController.gameObjects is assigned once the game scene has created the sprite
createGameObjects ==
    /\ ~gameObjects
    /\ lastCall' = [op |-> "createGameObjects"]
    /\ gameObjects' = TRUE
    /\ sent' = <<>>
    /\ notified' = <<>>
    /\ UNCHANGED <<players, ourLocation, outgoingTeleport, incomingTeleports>>
    /\ UNCHANGED sessionVars
    /\ UNCHANGED townVars

\* ---------------------------------------------------------------- outgoing request
\* PlayerController `set outgoingTeleport`: the events emitted on assigning `request`.
\* A request object assigned by TownController is always a new object.
setOutgoingTeleport(request) ==
    IF request.typeof = "object" \/ outgoingTeleport # request
    THEN <<"outgoingTeleportChange">>
    ELSE <<>>

\* TownController.emitTeleportRequest; time is the value of new Date()
emitTeleportRequest(toPlayerId, time) ==
    LET request == [fromPlayerId |-> userID, toPlayerId |-> toPlayerId, time |-> time]
    IN  /\ lastCall' = [op |-> "emitTeleportRequest"]
        /\ IF _playerInSession(toPlayerId)
           THEN /\ outgoingTeleport' = Pending(request)
                /\ notified' = setOutgoingTeleport(Pending(request))
                /\ sent' = <<[event |-> "teleportRequest", request |-> request]>>
           ELSE /\ outgoingTeleport' = outgoingTeleport
                /\ notified' = <<>>
                /\ sent' = <<[event |-> "teleportFailed", request |-> request]>>
        /\ UNCHANGED <<players, ourLocation, gameObjects, incomingTeleports>>
        /\ UNCHANGED sessionVars
        /\ UNCHANGED townVars

\* emitTeleportCanceled without the comparison of the target id
emitTeleportCanceledAnyTarget(toPlayerId) ==
    /\ lastCall' = [op |-> "emitTeleportCanceled"]
    /\ IF outgoingTeleport.typeof # "string"
       THEN /\ sent' = <<[event |-> "teleportCanceled", request |-> Wire(outgoingTeleport)]>>
            /\ outgoingTeleport' = Status("Cancelled")
            /\ notified' = <<"outgoingTeleportChange">>
       ELSE /\ sent' = <<>>
            /\ outgoingTeleport' = outgoingTeleport
            /\ notified' = <<>>
    /\ UNCHANGED <<players, ourLocation, gameObjects, incomingTeleports>>
    /\ UNCHANGED sessionVars
    /\ UNCHANGED townVars

\* TownController.emitTeleportCanceled
emitTeleportCanceled(toPlayerId) ==
    /\ lastCall' = [op |-> "emitTeleportCanceled"]
    /\ IF outgoingTeleport.typeof # "string" /\ outgoingTeleport.toPlayerId = toPlayerId
       THEN /\ sent' = <<[event |-> "teleportCanceled", request |-> Wire(outgoingTeleport)]>>
            /\ outgoingTeleport' = Status("Cancelled")
            /\ notified' = setOutgoingTeleport(Status("Cancelled"))
       ELSE /\ sent' = <<>>
            /\ outgoingTeleport' = outgoingTeleport
            /\ notified' = <<>>
    /\ UNCHANGED <<players, ourLocation, gameObjects, incomingTeleports>>
    /\ UNCHANGED sessionVars
    /\ UNCHANGED townVars

\* (this.ourPlayer.outgoingTeleport as TeleportRequest).toPlayerId: undefined on a string
currentToPlayerId ==
    IF outgoingTeleport.typeof = "object" THEN outgoingTeleport.toPlayerId ELSE "undefined"

\* isOurCurrentRequest without the comparison of the sender
isOurCurrentRequestAnySender(request) == request.toPlayerId = currentToPlayerId

\* isOurCurrentRequest without the comparison of the target
isOurCurrentRequestAnyTarget(request) == request.fromPlayerId = userID

\* The test the teleportAccepted and teleportDenied listeners share: the request is
\* ours and its target is the target of the current outgoing request
isOurCurrentRequest(request) ==
    request.fromPlayerId = userID /\ request.toPlayerId = currentToPlayerId

\* _teleportOurPlayerTo leaving our player where it is
_teleportOurPlayerToNowhere(otherPlayerLocation, target) ==
    /\ ourLocation' = ourLocation
    /\ players' = players

\* TownController._teleportOurPlayerTo followed by emitMovement: ourPlayer.location
\* becomes the other player's location object (target: its roster index)
_teleportOurPlayerTo(otherPlayerLocation, target) ==
    /\ ourLocation' = otherPlayerLocation
    /\ players' = assignOurLocation(otherPlayerLocation, target)

\* teleportMoves without the throw of _teleportOurPlayerTo on missing game objects
teleportMovesUnguarded(otherPlayer) == Len(otherPlayer) = 1

\* The teleportAccepted listener moves our player when exactly one roster entry has
\* the target's id and _teleportOurPlayerTo does not throw (gameObjects is defined)
teleportMoves(otherPlayer) == Len(otherPlayer) = 1 /\ gameObjects

\* teleportOutcome answering teleportSuccess whatever happened
teleportOutcomeAlwaysSuccess(otherPlayer) == "teleportSuccess"

\* The event the teleportAccepted listener answers with; a throw inside the try
\* block is caught and answered with teleportFailed
teleportOutcome(otherPlayer) ==
    IF teleportMoves(otherPlayer) THEN "teleportSuccess" ELSE "teleportFailed"

\* socket.on('teleportAccepted')
teleportAccepted(request) ==
    /\ lastCall' = [op |-> "teleportAccepted"]
    /\ IF isOurCurrentRequest(request)
       THEN LET otherPlayer == SelectSeq(players, LAMBDA player : player.id = request.toPlayerId)
            IN  /\ outgoingTeleport' = Status("Accepted")
                /\ IF teleportMoves(otherPlayer)
                   THEN /\ _teleportOurPlayerTo(otherPlayer[1].location,
                                                findPlayer(request.toPlayerId))
                        /\ sent' = <<[event |-> "playerMovement",
                                      location |-> otherPlayer[1].location],
                                     [event |-> teleportOutcome(otherPlayer),
                                      request |-> request]>>
                        /\ notified' = setOutgoingTeleport(Status("Accepted"))
                                         \o <<"movement", "playerMoved">>
                   ELSE /\ ourLocation' = ourLocation
                        /\ players' = players
                        /\ sent' = <<[event |-> teleportOutcome(otherPlayer),
                                      request |-> request]>>
                        /\ notified' = setOutgoingTeleport(Status("Accepted"))
       ELSE /\ outgoingTeleport' = outgoingTeleport
            /\ ourLocation' = ourLocation
            /\ players' = players
            /\ sent' = <<>>
            /\ notified' = <<>>
    /\ UNCHANGED <<gameObjects, incomingTeleports>>
    /\ UNCHANGED sessionVars
    /\ UNCHANGED townVars

\* socket.on('teleportDenied')
teleportDenied(request) ==
    /\ lastCall' = [op |-> "teleportDenied"]
    /\ sent' = <<>>
    /\ IF isOurCurrentRequest(request)
       THEN /\ outgoingTeleport' = Status("Denied")
            /\ notified' = setOutgoingTeleport(Status("Denied"))
       ELSE /\ outgoingTeleport' = outgoingTeleport
            /\ notified' = <<>>
    /\ UNCHANGED <<players, ourLocation, gameObjects, incomingTeleports>>
    /\ UNCHANGED sessionVars
    /\ UNCHANGED townVars

\* A 'teleportTimeout' event from the server: registerSocketListeners registers no
\* listener for it, so the event is dropped
teleportTimeout(request) ==
    /\ lastCall' = [op |-> "teleportTimeout"]
    /\ sent' = <<>>
    /\ notified' = <<>>
    /\ UNCHANGED <<players, ourLocation, gameObjects, outgoingTeleport, incomingTeleports>>
    /\ UNCHANGED sessionVars
    /\ UNCHANGED townVars

\* Player models the server sends
PlayerModels == [id : PlayerIds, location : Locations]

\* The outgoing request and the events about it.  A teleportTimeout event is about a
\* request of our player; no listener reads it.
NextOutgoing ==
    \/ \E newPlayer \in PlayerModels : playerJoined(newPlayer)
    \/ \E id \in PlayerIds : playerDisconnect(id)
    \/ \E movedPlayer \in PlayerModels : playerMoved(movedPlayer)
    \/ \E newLocation \in Locations : emitMovement(newLocation)
    \/ createGameObjects
    \/ \E toPlayerId \in PlayerIds, time \in Times : emitTeleportRequest(toPlayerId, time)
    \/ \E toPlayerId \in PlayerIds : emitTeleportCanceled(toPlayerId)
    \/ \E request \in TeleportRequest : teleportAccepted(request)
    \/ \E request \in TeleportRequest : teleportDenied(request)
    \/ \E toPlayerId \in PlayerIds, time \in Times :
           teleportTimeout([fromPlayerId |-> userID, toPlayerId |-> toPlayerId,
                            time |-> time])

SpecOutgoing == Init /\ [][NextOutgoing]_vars

\* ---------------------------------------------------------------- countdown
\* What emitTeleportCanceled(toPlayerId) does to outgoingTeleport, and what it sends
\* and notifies, when another method calls it
cancelOutgoing(toPlayerId) ==
    IF outgoingTeleport.typeof # "string" /\ outgoingTeleport.toPlayerId = toPlayerId
    THEN [outgoingTeleport |-> Status("Cancelled"),
          sent |-> <<[event |-> "teleportCanceled", request |-> Wire(outgoingTeleport)]>>,
          emitted |-> <<"outgoingTeleportChange">>]
    ELSE [outgoingTeleport |-> outgoingTeleport, sent |-> <<>>, emitted |-> <<>>]

\* TownController.emitOutgoingTeleportTimerChange(newValue), for a number newValue.
\* (The setter of ourPlayer.outgoingTeleportTimer is not among the sources: the
\* field is modelled, the setter's own notification is not.)
\* interval: the timer _ourPlayerOutgoingTeleportTimerInterval refers to when the
\* method runs; running: the number of running timers then.
emitOutgoingTeleportTimerChange(newValue, interval, running) ==
    IF newValue = 0
    THEN LET c == cancelOutgoing(userID)
         IN  /\ outgoingTeleport' = c.outgoingTeleport
             /\ notified' = c.emitted
             /\ sent' = c.sent \o <<[event |-> "outgoingTeleportTimerChange",
                                     state |-> Undefined]>>
             /\ outgoingTeleportTimer' = Undefined
             /\ IF interval = "running"
                THEN intervals' = running - 1 /\ timerInterval' = "cleared"
                ELSE intervals' = running /\ timerInterval' = interval
    ELSE /\ outgoingTeleport' = outgoingTeleport
         /\ notified' = <<>>
         /\ sent' = <<[event |-> "outgoingTeleportTimerChange", state |-> Number(newValue)]>>
         /\ outgoingTeleportTimer' = Number(newValue)
         /\ intervals' = running
         /\ timerInterval' = interval

\* TownController.startOutgoingTeleportTimer: a new setInterval timer, whose handle
\* replaces the stored one, then the start value is emitted
startOutgoingTeleportTimer(startValue) ==
    /\ intervals < MaxIntervals
    /\ lastCall' = [op |-> "startOutgoingTeleportTimer"]
    /\ timerValue' = startValue
    /\ emitOutgoingTeleportTimerChange(startValue, "running", intervals + 1)
    /\ UNCHANGED <<players, ourLocation, gameObjects, incomingTeleports, connected>>
    /\ UNCHANGED townVars

\* One run of the setInterval callback of startOutgoingTeleportTimer, by any of the
\* running timers
tick ==
    /\ intervals > 0
    /\ timerValue > -MaxOverrun
    /\ lastCall' = [op |-> "tick"]
    /\ timerValue' = timerValue - 1
    /\ emitOutgoingTeleportTimerChange(timerValue - 1, timerInterval, intervals)
    /\ UNCHANGED <<players, ourLocation, gameObjects, incomingTeleports, connected>>
    /\ UNCHANGED townVars

\* ---------------------------------------------------------------- disconnect
\* _clearTeleports denying only the first request of the list
denyAllFirstOnly(inList, current) ==
    IF inList = <<>>
    THEN [incomingTeleports |-> current, sent |-> <<>>, emitted |-> <<>>]
    ELSE [incomingTeleports |-> removeIncomingTeleport(current, Head(inList)).incomingTeleports,
          sent |-> <<[event |-> "teleportDenied", request |-> Wire(Head(inList))]>>,
          emitted |-> <<"incomingTeleportsChange">>]

\* inList.forEach(request => this.emitTeleportDenied(request)) of _clearTeleports.
\* An object of inList is still an object of the current list unless the removal of
\* an earlier, value-equal object has filtered it out.
RECURSIVE denyAll(_, _)
denyAll(inList, current) ==
    IF inList = <<>>
    THEN [incomingTeleports |-> current, sent |-> <<>>, emitted |-> <<>>]
    ELSE LET request == Head(inList)
             found == findEqual(current, request)
             r == removeIncomingTeleport(current, request)
             rest == denyAll(Tail(inList), IF found THEN r.incomingTeleports ELSE current)
         IN  [incomingTeleports |-> rest.incomingTeleports,
              sent |-> <<[event |-> IF found THEN "teleportDenied" ELSE "teleportFailed",
                          request |-> Wire(request)]>> \o rest.sent,
              emitted |-> (IF found THEN r.emitted ELSE <<>>) \o rest.emitted]

\* TownController.disconnect: _clearTeleports, then the socket is disconnected and
\* the login controller is told that there is no town controller
disconnect ==
    LET d == denyAll(incomingTeleports, incomingTeleports)
        c == cancelOutgoing(currentToPlayerId)
    IN  /\ connected
        /\ lastCall' = [op |-> "disconnect"]
        /\ incomingTeleports' = d.incomingTeleports
        /\ outgoingTeleport' = c.outgoingTeleport
        /\ sent' = d.sent \o c.sent
        /\ notified' = d.emitted \o c.emitted
        /\ connected' = FALSE
        /\ loginController' = "null"
        /\ UNCHANGED <<players, ourLocation, gameObjects,
                       outgoingTeleportTimer, timerValue, intervals, timerInterval>>
        /\ UNCHANGED <<doNotDisturb, areaVars, snapshotVars, nearby, callVars>>

\* Start values of the countdown
StartValues == 1 .. MaxStartValue

\* The outgoing request and its countdown, in a roster that does not change.  The
\* countdown is started where the request button's onClick starts it: right after
\* emitTeleportRequest.  Once the socket is disconnected only the timers run.
NextTimer ==
    \/ connected /\ \E toPlayerId \in PlayerIds, time \in Times :
                        emitTeleportRequest(toPlayerId, time)
    \/ connected /\ \E toPlayerId \in PlayerIds : emitTeleportCanceled(toPlayerId)
    \/ connected /\ \E request \in TeleportRequest : teleportAccepted(request)
    \/ connected /\ \E request \in TeleportRequest : teleportDenied(request)
    \/ connected /\ lastCall.op = "emitTeleportRequest"
                 /\ \E startValue \in StartValues : startOutgoingTeleportTimer(startValue)
    \/ tick
    \/ disconnect

InitTimer == Init /\ Len(players) = 2

SpecTimer == InitTimer /\ [][NextTimer]_vars

\* The incoming list and the outgoing request up to disconnect()
NextDisconnect ==
    \/ connected /\ \E request \in TeleportRequest : teleportRequest(request)
    \/ connected /\ \E toPlayerId \in PlayerIds, time \in Times :
                        emitTeleportRequest(toPlayerId, time)
    \/ disconnect

SpecDisconnect == InitTimer /\ [][NextDisconnect]_vars

\* ---------------------------------------------------------------- joining the town
\* PlayerLocation values of the server's player models: in an interactable or not
LocBInArea == [LocB EXCEPT !.interactableID = "area1"]
ServerLocations == Locations \cup {LocBInArea}

\* Player models the server sends in the snapshot and in roster events
ServerPlayerModels == [id : PlayerIds, location : ServerLocations]

\* ConversationArea and ViewingArea models (the two kinds of Interactable)
ConversationAreaModels ==
    [id : {"c1", "c2"}, topic : {"undefined", "topic1"}, occupantsByID : SUBSET PlayerIds]
ViewingAreaModels ==
    [id : {"v1", "v2"}, video : {"video1"}, isPlaying : BOOLEAN, elapsedTimeSec : {0, 5}]

\* The type guards of the Interactable union
isConversationArea(interactable) == "occupantsByID" \in DOMAIN interactable
isViewingArea(interactable) == "isPlaying" \in DOMAIN interactable

\* _playersByIDs on a given roster
_playersByIDsOf(roster, playerIDs) ==
    SelectSeq(roster, LAMBDA eachPlayer : eachPlayer.id \in playerIDs)

\* The occupants a ConversationAreaController is given: the roster's players with
\* the ids of occupantsByID, in roster order (each one named by its id)
occupantsOf(roster, occupantsByID) ==
    LET found == _playersByIDsOf(roster, occupantsByID)
    IN  [i \in 1 .. Len(found) |-> found[i].id]

\* ConversationAreaController.fromConversationAreaModel
fromConversationAreaModel(area, roster) ==
    [id |-> area.id, topic |-> area.topic,
     occupants |-> occupantsOf(roster, area.occupantsByID)]

\* new ViewingAreaController(model)
ViewingAreaController(area) ==
    [id |-> area.id, video |-> area.video, isPlaying |-> area.isPlaying,
     elapsedTimeSec |-> area.elapsedTimeSec]

\* The snapshot's roster without the mapping of the player models
initializePlayersNone(currentPlayers, id) == <<>>

\* initialData.currentPlayers.map(fromPlayerModel); the entry find() returns for
\* the id `id` is the object that becomes _ourPlayer
initializePlayers(currentPlayers, id) ==
    LET first == IF \E i \in 1 .. Len(currentPlayers) : currentPlayers[i].id = id
                 THEN CHOOSE i \in 1 .. Len(currentPlayers) :
                          /\ currentPlayers[i].id = id
                          /\ \A j \in 1 .. (i - 1) : currentPlayers[j].id # id
                 ELSE 0
    IN  [i \in 1 .. Len(currentPlayers) |->
            Player(currentPlayers[i].id, currentPlayers[i].location, i = first, i = first)]

\* `private set _conversationAreas`: the list is assigned, then
\* conversationAreasChanged is emitted with it.  A dispatch records the event, its
\* payload and what a listener that reads controller.conversationAreas gets.
set_conversationAreas(newConversationAreas) ==
    [dispatched |-> <<[event |-> "conversationAreasChanged",
                       payload |-> newConversationAreas,
                       conversationAreas |-> newConversationAreas]>>,
     conversationAreas |-> newConversationAreas]

\* The dispatches of the 'initialize' listener run on `roster`: those of the two
\* setters, which run before the interactables are pushed, then connect
initializeDispatched(roster, initialData) ==
    set_players(roster, initializePlayers(initialData.currentPlayers,
                                          initialData.userID)).dispatched
    \o set_conversationAreas(<<>>).dispatched
    \o <<[event |-> "connect", payload |-> initialData.providerVideoToken]>>

\* TownController.connect: the socket starts to connect and the two listeners of
\* the returned promise are registered
connect ==
    /\ connectPromise = "none"
    /\ lastCall' = [op |-> "connect"]
    /\ connectPromise' = "pending"
    /\ sent' = <<>>
    /\ notified' = <<>>
    /\ UNCHANGED <<players, ourLocation, gameObjects, outgoingTeleport, incomingTeleports>>
    /\ UNCHANGED sessionVars
    /\ UNCHANGED <<doNotDisturb, areaVars, providerVideoToken, friendlyName,
                   townIsPubliclyListed, sessionToken, _userID, _ourPlayer, loginController,
                   nearby, callVars>>

\* The socket's transport is connected: the controller listens to no such event
socketConnect ==
    /\ connectPromise = "pending"
    /\ ~connected
    /\ lastCall' = [op |-> "socketConnect"]
    /\ connected' = TRUE
    /\ sent' = <<>>
    /\ notified' = <<>>
    /\ UNCHANGED <<players, ourLocation, gameObjects, outgoingTeleport, incomingTeleports>>
    /\ UNCHANGED <<outgoingTeleportTimer, timerValue, intervals, timerInterval>>
    /\ UNCHANGED townVars

\* socket.on('initialize') of connect(): the snapshot is applied, 'connect' is
\* emitted and the promise resolved (a settled promise stays as it is)
initialize(initialData) ==
    LET newPlayers == initializePlayers(initialData.currentPlayers, initialData.userID)
        isOurs(i) == newPlayers[i].isOurPlayer
        conversations == SelectSeq(initialData.interactables, isConversationArea)
        viewings == SelectSeq(initialData.interactables, isViewingArea)
    IN  /\ lastCall' = [op |-> "initialize"]
        /\ providerVideoToken' = initialData.providerVideoToken
        /\ friendlyName' = initialData.friendlyName
        /\ townIsPubliclyListed' = initialData.isPubliclyListed
        /\ sessionToken' = initialData.sessionToken
        /\ players' = newPlayers
        /\ conversationAreas' = [i \in 1 .. Len(conversations) |->
                                    fromConversationAreaModel(conversations[i], newPlayers)]
        /\ viewingAreas' = [i \in 1 .. Len(viewings) |-> ViewingAreaController(viewings[i])]
        /\ _userID' = initialData.userID
        /\ IF \E i \in 1 .. Len(newPlayers) : isOurs(i)
           THEN /\ _ourPlayer' = "defined"
                /\ ourLocation' = newPlayers[CHOOSE i \in 1 .. Len(newPlayers) : isOurs(i)].location
           ELSE /\ _ourPlayer' = "undefined"
                /\ ourLocation' = ourLocation
        /\ notified' = eventsOf(initializeDispatched(players, initialData))
        /\ connectPromise' = IF connectPromise = "pending" THEN "resolved" ELSE connectPromise
        /\ sent' = <<>>
        /\ UNCHANGED <<gameObjects, outgoingTeleport, incomingTeleports>>
        /\ UNCHANGED sessionVars
        /\ UNCHANGED <<doNotDisturb, loginController, nearby, callVars>>

\* socket.on('disconnect') of connect(): the promise is rejected (a settled promise
\* stays as it is)
socketDisconnect ==
    /\ connected
    /\ connectPromise # "none"
    /\ lastCall' = [op |-> "socketDisconnect"]
    /\ connected' = FALSE
    /\ connectPromise' = IF connectPromise = "pending" THEN "rejected" ELSE connectPromise
    /\ sent' = <<>>
    /\ notified' = <<>>
    /\ UNCHANGED <<players, ourLocation, gameObjects, outgoingTeleport, incomingTeleports>>
    /\ UNCHANGED <<outgoingTeleportTimer, timerValue, intervals, timerInterval>>
    /\ UNCHANGED <<doNotDisturb, areaVars, providerVideoToken, friendlyName,
                   townIsPubliclyListed, sessionToken, _userID, _ourPlayer, loginController,
                   nearby, callVars>>

\* Rosters of a snapshot: the server's players, each id once, ours among them
CurrentPlayers ==
    {<<m>> : m \in {n \in ServerPlayerModels : n.id = userID}}
    \cup {<<m1, m2>> : m1 \in {n \in ServerPlayerModels : n.id = userID},
                       m2 \in {n \in ServerPlayerModels : n.id # userID /\ n.location = LocA}}
    \cup {<<m2, m1>> : m1 \in {n \in ServerPlayerModels : n.id = userID},
                       m2 \in {n \in ServerPlayerModels : n.id # userID /\ n.location = LocA}}

\* Interactables of a snapshot
InitialInteractables ==
    {<<>>,
     <<[id |-> "c1", topic |-> "undefined", occupantsByID |-> {}],
       [id |-> "v1", video |-> "video1", isPlaying |-> FALSE, elapsedTimeSec |-> 0]>>}

\* The 'initialize' snapshots: TownJoinResponse
TownJoinResponse ==
    [userID : {userID}, sessionToken : {"sessionToken"}, providerVideoToken : {"videoToken"},
     currentPlayers : CurrentPlayers, friendlyName : {"town"}, isPubliclyListed : BOOLEAN,
     interactables : InitialInteractables]

\* A controller that was constructed and is not connected yet.  (The fields of
\* ourPlayer have a meaning once _ourPlayer is defined.)
InitConstructed ==
    /\ players = <<>>
    /\ ourLocation = LocA
    /\ gameObjects = FALSE
    /\ outgoingTeleport = Status("Default")
    /\ incomingTeleports = <<>>
    /\ sent = <<>>
    /\ notified = <<>>
    /\ lastCall = [op |-> "constructor"]
    /\ outgoingTeleportTimer = Undefined
    /\ timerValue = 0
    /\ intervals = 0
    /\ timerInterval = "undefined"
    /\ connected = FALSE
    /\ doNotDisturb = FALSE
    /\ conversationAreas = <<>>
    /\ viewingAreas = <<>>
    /\ connectPromise = "none"
    /\ providerVideoToken = "undefined"
    /\ friendlyName = "undefined"
    /\ townIsPubliclyListed = FALSE
    /\ sessionToken = "undefined"
    /\ _userID = "undefined"
    /\ _ourPlayer = "undefined"
    /\ loginController = "townController"
    /\ nearby = <<>>
    /\ now = MountTime
    /\ lastRecalculatedNearbyPlayers = 0
    /\ prevNearbyPlayers = <<>>
    /\ playersInCall = <<>>

\* Joining the town and the roster events that follow the snapshot
NextRoster ==
    \/ connect
    \/ socketConnect
    \/ connected /\ connectPromise = "pending"
                 /\ \E initialData \in TownJoinResponse : initialize(initialData)
    \/ socketDisconnect
    \/ connected /\ connectPromise = "resolved"
                 /\ \E newPlayer \in ServerPlayerModels : playerJoined(newPlayer)
    \/ connected /\ connectPromise = "resolved"
                 /\ \E id \in PlayerIds : playerDisconnect(id)
    \/ connected /\ connectPromise = "resolved"
                 /\ \E movedPlayer \in ServerPlayerModels : playerMoved(movedPlayer)

SpecRoster == InitConstructed /\ [][NextRoster]_vars

\* ---------------------------------------------------------------- town closing
\* socket.on('townClosing'): 'disconnect' is emitted and the login controller is
\* told that there is no town controller
townClosing ==
    /\ lastCall' = [op |-> "townClosing"]
    /\ notified' = <<"disconnect">>
    /\ loginController' = "null"
    /\ sent' = <<>>
    /\ UNCHANGED <<players, ourLocation, gameObjects, outgoingTeleport, incomingTeleports>>
    /\ UNCHANGED sessionVars
    /\ UNCHANGED <<doNotDisturb, areaVars, snapshotVars, nearby, callVars>>

\* ---------------------------------------------------------------- do not disturb
\* PlayerController `set doNotDisturb`: the events emitted on assigning newValue
setDoNotDisturb(newValue) ==
    IF newValue # doNotDisturb THEN <<"doNotDisturbChange">> ELSE <<>>

\* TownController.emitDoNotDisturbChange: the negated state is sent, then assigned
emitDoNotDisturbChange ==
    [doNotDisturb |-> ~doNotDisturb,
     sent |-> <<[event |-> "doNotDisturbChange", state |-> ~doNotDisturb]>>,
     emitted |-> setDoNotDisturb(~doNotDisturb)]

\* The do-not-disturb switch cancelling with our own id
doNotDisturbCancelTargetOurs == userID

\* The id the do-not-disturb switch passes to emitTeleportCanceled, which it calls
\* when outgoingTeleport is not a string: the target of the pending request
doNotDisturbCancelTarget == currentToPlayerId

\* The onChange handler of the do-not-disturb switch of the players list:
\* emitDoNotDisturbChange, then the pending outgoing request is cancelled, then
\* emitTeleportDenied is called with every request of the incoming list
toggleDoNotDisturb ==
    LET t == emitDoNotDisturbChange
        c == cancelOutgoing(doNotDisturbCancelTarget)
        d == denyAll(incomingTeleports, incomingTeleports)
    IN  /\ lastCall' = [op |-> "toggleDoNotDisturb"]
        /\ doNotDisturb' = t.doNotDisturb
        /\ outgoingTeleport' = c.outgoingTeleport
        /\ incomingTeleports' = d.incomingTeleports
        /\ sent' = t.sent \o c.sent \o d.sent
        /\ notified' = t.emitted \o c.emitted \o d.emitted
        /\ UNCHANGED <<players, ourLocation, gameObjects>>
        /\ UNCHANGED sessionVars
        /\ UNCHANGED <<areaVars, snapshotVars, loginController, nearby, callVars>>

\* The requests the server sends to this client: those addressed to our player
RequestsToUs == {t \in TeleportRequest : t.toPlayerId = userID}

\* Requests in both directions, the do-not-disturb switch and the closing of the town
NextDoNotDisturb ==
    \/ \E request \in RequestsToUs : teleportRequest(request)
    \/ \E toPlayerId \in PlayerIds, time \in Times : emitTeleportRequest(toPlayerId, time)
    \/ toggleDoNotDisturb
    \/ townClosing

SpecDoNotDisturb == InitTimer /\ [][NextDoNotDisturb]_vars

\* ---------------------------------------------------------------- other players' state
\* DoNotDisturbInfo and OutgoingTeleportTimerInfo of the server's events
DoNotDisturbInfo == [playerId : PlayerIds, state : BOOLEAN]
OutgoingTeleportTimerInfo ==
    [playerId : PlayerIds, state : {Undefined} \cup {Number(n) : n \in StartValues}]

\* isRemotePlayerInfo without the comparison with our player's id
isRemotePlayerInfoAnyPlayer(playerId, player) == playerId = player.id

\* The test of the doNotDisturbChange and outgoingTeleportTimerChange listeners:
\* the event names this player, and not our player
isRemotePlayerInfo(playerId, player) == playerId = player.id /\ playerId # userID

\* socket.on('doNotDisturbChange').  A write to the object that is _ourPlayer is a
\* write to ourPlayer.doNotDisturb.
doNotDisturbChange(playerInfo) ==
    LET patched(i) == isRemotePlayerInfo(playerInfo.playerId, players[i])
        ours == \E i \in 1 .. Len(players) : patched(i) /\ players[i].isOurPlayer
    IN  /\ lastCall' = [op |-> "doNotDisturbChange"]
        /\ players' = [i \in 1 .. Len(players) |->
                          IF patched(i) /\ ~players[i].isOurPlayer
                          THEN [players[i] EXCEPT !.doNotDisturb = playerInfo.state]
                          ELSE players[i]]
        /\ doNotDisturb' = IF ours THEN playerInfo.state ELSE doNotDisturb
        /\ notified' = (IF ours THEN setDoNotDisturb(playerInfo.state) ELSE <<>>)
                           \o <<"playersChanged">>
        /\ sent' = <<>>
        /\ UNCHANGED <<ourLocation, gameObjects, outgoingTeleport, incomingTeleports>>
        /\ UNCHANGED sessionVars
        /\ UNCHANGED <<areaVars, snapshotVars, loginController, nearby, callVars>>

\* socket.on('outgoingTeleportTimerChange').  A write to the object that is
\* _ourPlayer is a write to ourPlayer.outgoingTeleportTimer.
outgoingTeleportTimerChange(playerInfo) ==
    LET patched(i) == isRemotePlayerInfo(playerInfo.playerId, players[i])
        ours == \E i \in 1 .. Len(players) : patched(i) /\ players[i].isOurPlayer
    IN  /\ lastCall' = [op |-> "outgoingTeleportTimerChange"]
        /\ players' = [i \in 1 .. Len(players) |->
                          IF patched(i) /\ ~players[i].isOurPlayer
                          THEN setOutgoingTeleportTimer(players[i], playerInfo.state)
                          ELSE players[i]]
        /\ outgoingTeleportTimer' = IF ours THEN playerInfo.state ELSE outgoingTeleportTimer
        /\ notified' = <<"playersChanged">>
        /\ sent' = <<>>
        /\ UNCHANGED <<ourLocation, gameObjects, outgoingTeleport, incomingTeleports>>
        /\ UNCHANGED <<timerValue, intervals, timerInterval, connected>>
        /\ UNCHANGED townVars

\* Players who join at the location every player starts at
JoiningPlayers == [id : PlayerIds, location : {LocA}]

\* The roster and the do-not-disturb and countdown states of its players
NextPlayerInfo ==
    \/ \E newPlayer \in JoiningPlayers : playerJoined(newPlayer)
    \/ \E id \in PlayerIds : playerDisconnect(id)
    \/ \E playerInfo \in DoNotDisturbInfo : doNotDisturbChange(playerInfo)
    \/ \E playerInfo \in OutgoingTeleportTimerInfo : outgoingTeleportTimerChange(playerInfo)

SpecPlayerInfo == Init /\ [][NextPlayerInfo]_vars

\* ---------------------------------------------------------------- interactables
\* ConversationAreaController.isEmpty: the area has no occupants
isEmpty(area) == area.occupants = <<>>

\* ViewingAreaController.updateFrom: the fields of the model are taken over
updateFrom(area, model) ==
    [area EXCEPT !.video = model.video, !.isPlaying = model.isPlaying,
                 !.elapsedTimeSec = model.elapsedTimeSec]

\* Array.prototype.find(area => area.id === id): the first index, 0 if none
findArea(areas, id) ==
    IF \E i \in 1 .. Len(areas) : areas[i].id = id
    THEN CHOOSE i \in 1 .. Len(areas) :
             /\ areas[i].id = id
             /\ \A j \in 1 .. (i - 1) : areas[j].id # id
    ELSE 0

\* conversationAreasChanged emitted on every update of a conversation area
conversationAreasChangedOnEveryUpdate(emptyNow, emptyAfterChange) ==
    <<"conversationAreasChanged">>

\* The events the interactableUpdate listener emits on the TownController for a
\* conversation area that was empty or not before and after the update
conversationAreasChanged(emptyNow, emptyAfterChange) ==
    IF emptyNow # emptyAfterChange THEN <<"conversationAreasChanged">> ELSE <<>>

\* The conversation areas after the interactableUpdate listener has run on `areas`
\* with the roster `roster`: the topic and the occupants of the area that has the
\* id are written
interactableUpdateAreas(areas, roster, interactable) ==
    LET updatedConversationArea == findArea(areas, interactable.id)
    IN  IF isConversationArea(interactable) /\ updatedConversationArea # 0
        THEN [areas EXCEPT ![updatedConversationArea] =
                 [areas[updatedConversationArea] EXCEPT
                      !.topic = interactable.topic,
                      !.occupants = occupantsOf(roster, interactable.occupantsByID)]]
        ELSE areas

\* The dispatches of the interactableUpdate listener: conversationAreasChanged is
\* emitted with the controller's list once the area was written
interactableUpdateDispatched(areas, roster, interactable) ==
    LET updatedConversationArea == findArea(areas, interactable.id)
        updated == interactableUpdateAreas(areas, roster, interactable)
    IN  IF isConversationArea(interactable) /\ updatedConversationArea # 0
        THEN LET emitted == conversationAreasChanged(
                                isEmpty(areas[updatedConversationArea]),
                                isEmpty(updated[updatedConversationArea]))
             IN  [k \in 1 .. Len(emitted) |->
                     [event |-> emitted[k], payload |-> updated,
                      conversationAreas |-> updated]]
        ELSE <<>>

\* socket.on('interactableUpdate').  (The events the area controllers emit on
\* themselves are not recorded in `notified`.)
interactableUpdate(interactable) ==
    /\ lastCall' = [op |-> "interactableUpdate"]
    /\ sent' = <<>>
    /\ IF isConversationArea(interactable)
       THEN /\ conversationAreas' =
                   interactableUpdateAreas(conversationAreas, players, interactable)
            /\ notified' = eventsOf(interactableUpdateDispatched(conversationAreas, players,
                                                                 interactable))
            /\ viewingAreas' = viewingAreas
       ELSE LET updatedViewingArea == findArea(viewingAreas, interactable.id)
            IN  /\ conversationAreas' = conversationAreas
                /\ notified' = <<>>
                /\ IF isViewingArea(interactable) /\ updatedViewingArea # 0
                   THEN viewingAreas' = [viewingAreas EXCEPT ![updatedViewingArea] =
                                            updateFrom(viewingAreas[updatedViewingArea],
                                                       interactable)]
                   ELSE viewingAreas' = viewingAreas
    /\ UNCHANGED <<players, ourLocation, gameObjects, outgoingTeleport, incomingTeleports>>
    /\ UNCHANGED sessionVars
    /\ UNCHANGED <<doNotDisturb, snapshotVars, loginController, nearby, callVars>>

\* The controller once connect() has resolved on a snapshot with an empty
\* conversation area and a viewing area
InitAreas ==
    /\ InitTown
    /\ players \in InitialRosters
    /\ conversationAreas =
           <<fromConversationAreaModel(
                 [id |-> "c1", topic |-> "undefined", occupantsByID |-> {}], players)>>
    /\ viewingAreas =
           <<ViewingAreaController(
                 [id |-> "v1", video |-> "video1", isPlaying |-> FALSE,
                  elapsedTimeSec |-> 0])>>

\* The roster and the interactables
NextAreas ==
    \/ \E newPlayer \in JoiningPlayers : playerJoined(newPlayer)
    \/ \E id \in PlayerIds : playerDisconnect(id)
    \/ \E interactable \in ConversationAreaModels \cup ViewingAreaModels :
           interactableUpdate(interactable)

SpecAreas == InitAreas /\ [][NextAreas]_vars

\* ---------------------------------------------------------------- nearby players
\* withinCallDistance with a distance of exactly 80 counted as nearby
withinCallDistanceInclusive(dx, dy) == dx * dx + dy * dy <= 80 * 80

\* Math.sqrt(dx * dx + dy * dy) < 80
withinCallDistance(dx, dy) == dx * dx + dy * dy < 80 * 80

\* isNearby of nearbyPlayers.  An interactableID that is undefined is "none".
isNearby(p) ==
    IF ourLocation.interactableID # "none" \/ p.location.interactableID # "none"
    THEN p.location.interactableID = ourLocation.interactableID
    ELSE withinCallDistance(p.location.x - ourLocation.x, p.location.y - ourLocation.y)

\* TownController.nearbyPlayers
nearbyPlayers == SelectSeq(players, isNearby)

\* A call of nearbyPlayers(): the players returned, each named by its id
nearbyPlayersCalled ==
    /\ lastCall' = [op |-> "nearbyPlayers"]
    /\ nearby' = [i \in 1 .. Len(nearbyPlayers) |-> nearbyPlayers[i].id]
    /\ sent' = <<>>
    /\ notified' = <<>>
    /\ UNCHANGED <<players, ourLocation, gameObjects, outgoingTeleport, incomingTeleports>>
    /\ UNCHANGED sessionVars
    /\ UNCHANGED <<doNotDisturb, areaVars, snapshotVars, loginController>>
    /\ UNCHANGED callVars

\* Locations at distances of 79 (LocNear), exactly 80 (LocEdge) and far more than
\* 80 (LocB) from LocA, outside of and in two interactables
LocNear == [LocA EXCEPT !.y = 89]
LocEdge == [LocA EXCEPT !.x = 58, !.y = 74]
NearbyLocations ==
    {[l EXCEPT !.interactableID = a] :
        l \in {LocA, LocNear, LocEdge, LocB}, a \in {"none", "area1", "area2"}}

\* The players move, and nearbyPlayers() is called
NextNearby ==
    \/ \E movedPlayer \in [id : PlayerIds, location : NearbyLocations] :
           playerMoved(movedPlayer)
    \/ \E newLocation \in NearbyLocations : emitMovement(newLocation)
    \/ nearbyPlayersCalled

SpecNearby == InitTimer /\ [][NextNearby]_vars

\* ---------------------------------------------------------------- a player leaves
\* Requests in both directions while players join and leave the town
NextLeave ==
    \/ \E request \in RequestsToUs : teleportRequest(request)
    \/ \E toPlayerId \in PlayerIds, time \in Times : emitTeleportRequest(toPlayerId, time)
    \/ \E newPlayer \in JoiningPlayers : playerJoined(newPlayer)
    \/ \E id \in PlayerIds : playerDisconnect(id)

SpecLeave == InitTimer /\ [][NextLeave]_vars

\* ---------------------------------------------------------------- after a teleport
\* The accept of a request of our player, as the server delivers it to the requester
AcceptsOfOurRequests == {t \in TeleportRequest : t.fromPlayerId = userID}

\* A teleport of our player and the movements the server reports afterwards
NextTeleported ==
    \/ createGameObjects
    \/ \E toPlayerId \in PlayerIds, time \in Times : emitTeleportRequest(toPlayerId, time)
    \/ \E request \in AcceptsOfOurRequests : teleportAccepted(request)
    \/ \E movedPlayer \in ServerPlayerModels : playerMoved(movedPlayer)
    \/ \E newLocation \in Locations : emitMovement(newLocation)

SpecTeleported == InitTimer /\ [][NextTeleported]_vars

\* ---------------------------------------------------------------- dispatch order
\* Player models of the playerMoved events: a player walks into an interactable
MovedPlayers == [id : PlayerIds, location : {LocBInArea}]

\* Conversation area models of the interactableUpdate events: an area is given a
\* topic or loses it, our player walks in or out
UpdatedAreas ==
    [id : {"c1", "c2"}, topic : {"undefined", "topic1"}, occupantsByID : {{}, {userID}}]

\* The roster events and the updates of conversation areas of a joined town
NextDispatch ==
    \/ \E newPlayer \in JoiningPlayers : playerJoined(newPlayer)
    \/ \E id \in PlayerIds : playerDisconnect(id)
    \/ \E movedPlayer \in MovedPlayers : playerMoved(movedPlayer)
    \/ \E interactable \in UpdatedAreas : interactableUpdate(interactable)

SpecDispatch == InitAreas /\ [][NextDispatch]_vars

\* ---------------------------------------------------------------- players in the call
CALCULATE_NEARBY_PLAYERS_DELAY == 300
\* how long after the page is shown the clock is followed, in milliseconds
MaxElapsed == 900

\* The order of Array.prototype.sort() on the ids: by UTF-16 code units
idOrder == <<"p1", "p2", "p3">>
idBefore(id1, id2) ==
    \E i, j \in 1 .. Len(idOrder) : idOrder[i] = id1 /\ idOrder[j] = id2 /\ i < j

\* ids.sort(): the same ids, each as often, in ascending order
RECURSIVE sort(_)
sort(ids) ==
    IF ids = <<>>
    THEN <<>>
    ELSE LET least == CHOOSE i \in 1 .. Len(ids) :
                          \A j \in 1 .. Len(ids) : ~idBefore(ids[j], ids[i])
         IN  <<ids[least]>>
                 \o sort([k \in 1 .. Len(ids) - 1 |-> IF k < least THEN ids[k] ELSE ids[k + 1]])

\* samePlayers that compares the two lists of ids as they are ordered
samePlayersInOrder(a1, a2) == a1 = a2

\* samePlayers(a1, a2), the players given by their ids
samePlayers(a1, a2) ==
    IF Len(a1) # Len(a2) THEN FALSE ELSE sort(a1) = sort(a2)

\* a1.map(p => p.id)
idsOf(roster) == [i \in 1 .. Len(roster) |-> roster[i].id]

\* updatePlayersInCall of usePlayersInVideoCall: the listener of playerMoved and
\* playersChanged, which the effect also calls once when the hook is mounted
updatePlayersInCall ==
    /\ IF now - lastRecalculatedNearbyPlayers > CALCULATE_NEARBY_PLAYERS_DELAY
       THEN /\ lastRecalculatedNearbyPlayers' = now
            /\ nearby' = idsOf(nearbyPlayers)
            /\ IF ~samePlayers(idsOf(nearbyPlayers), prevNearbyPlayers)
               THEN /\ prevNearbyPlayers' = idsOf(nearbyPlayers)
                    /\ playersInCall' = idsOf(nearbyPlayers)
                    /\ lastCall' = [op |-> "updatePlayersInCall", recalculated |-> TRUE,
                                    setPlayersInCall |-> TRUE]
               ELSE /\ lastCall' = [op |-> "updatePlayersInCall", recalculated |-> TRUE,
                                    setPlayersInCall |-> FALSE]
                    /\ UNCHANGED <<prevNearbyPlayers, playersInCall>>
       ELSE /\ lastCall' = [op |-> "updatePlayersInCall", recalculated |-> FALSE,
                            setPlayersInCall |-> FALSE]
            /\ UNCHANGED <<lastRecalculatedNearbyPlayers, nearby, prevNearbyPlayers,
                           playersInCall>>
    /\ sent' = <<>>
    /\ notified' = <<>>
    /\ UNCHANGED now
    /\ UNCHANGED <<players, ourLocation, gameObjects, outgoingTeleport, incomingTeleports>>
    /\ UNCHANGED sessionVars
    /\ UNCHANGED <<doNotDisturb, areaVars, snapshotVars, loginController>>

\* Time passes between two events: Date.now() grows by `elapsed` milliseconds
timePasses(elapsed) ==
    /\ now + elapsed <= MountTime + MaxElapsed
    /\ now' = now + elapsed
    /\ UNCHANGED <<players, ourLocation, gameObjects, outgoingTeleport, incomingTeleports,
                   sent, notified, lastCall>>
    /\ UNCHANGED sessionVars
    /\ UNCHANGED <<doNotDisturb, areaVars, snapshotVars, loginController, nearby,
                   lastRecalculatedNearbyPlayers, prevNearbyPlayers, playersInCall>>

\* The times between two events: just inside the delay, the delay, just beyond it
Elapsed == {CALCULATE_NEARBY_PLAYERS_DELAY - 1, CALCULATE_NEARBY_PLAYERS_DELAY,
            CALCULATE_NEARBY_PLAYERS_DELAY + 1}

\* Players come near our player, walk away and leave while the hook is mounted; the
\* hook's listener runs on the roster events and on mounting
NextCall ==
    \/ \E movedPlayer \in [id : PlayerIds \ {userID}, location : Locations] :
           playerMoved(movedPlayer)
    \/ \E id \in PlayerIds \ {userID} : playerDisconnect(id)
    \/ \E elapsed \in Elapsed : timePasses(elapsed)
    \/ updatePlayersInCall

\* The town joined on a snapshot that lists our player, who joined last, after the
\* player who was there before
InitCall ==
    /\ InitTown
    /\ players = <<fromPlayerModel("p1", LocA), Player(userID, LocA, TRUE, TRUE)>>
    /\ conversationAreas = <<>>
    /\ viewingAreas = <<>>

SpecCall == InitCall /\ [][NextCall]_vars

Next ==
    \/ connected /\ (NextIncoming \/ NextOutgoing)
    \/ connected /\ \E startValue \in StartValues : startOutgoingTeleportTimer(startValue)
    \/ tick
    \/ disconnect
    \/ connected /\ townClosing
    \/ connected /\ toggleDoNotDisturb
    \/ connected /\ \E playerInfo \in DoNotDisturbInfo : doNotDisturbChange(playerInfo)
    \/ connected /\ \E playerInfo \in OutgoingTeleportTimerInfo :
                        outgoingTeleportTimerChange(playerInfo)
    \/ connected /\ \E interactable \in ConversationAreaModels \cup ViewingAreaModels :
                        interactableUpdate(interactable)
    \/ nearbyPlayersCalled
    \/ socketDisconnect

Spec == Init /\ [][Next]_vars

\* ---------------------------------------------------------------- properties

\* C1: every request, cancel, accept, deny or timeout step for one (requester,
\* target) pair leaves outgoingTeleport at the result of the protocol's transition
\* when the transition's guard holds (request of a player in the roster: Pending;
\* cancel of the pending target: Cancelled; matching accept: Accepted or Failed;
\* matching deny: Denied; matching timeout: TimedOut), and a step whose guard is
\* false leaves outgoingTeleport unchanged.
C1_LastPermittedTransition ==
    [][LET pendingTo(to) ==
               outgoingTeleport.typeof = "object" /\ outgoingTeleport.toPlayerId = to
           matches(r) == r.fromPlayerId = userID /\ pendingTo(r.toPlayerId)
           entries(id) == {i \in 1 .. Len(players) : players[i].id = id}
       IN  /\ \A to \in PlayerIds, time \in Times :
                 emitTeleportRequest(to, time) /\ outgoingTeleport.typeof = "string" =>
                     /\ Cardinality(entries(to)) = 1 =>
                            outgoingTeleport' = Pending([fromPlayerId |-> userID,
                                                         toPlayerId |-> to, time |-> time])
                     /\ entries(to) = {} => outgoingTeleport'.typeof = "string"
           /\ \A to \in PlayerIds :
                 emitTeleportCanceled(to) =>
                     IF pendingTo(to)
                     THEN outgoingTeleport' = Status("Cancelled")
                     ELSE outgoingTeleport' = outgoingTeleport
           /\ \A r \in TeleportRequest :
                 /\ teleportAccepted(r) =>
                        IF matches(r)
                        THEN /\ outgoingTeleport'.typeof = "string"
                             /\ Cardinality(entries(r.toPlayerId)) = 1 =>
                                    outgoingTeleport' = Status("Accepted")
                        ELSE outgoingTeleport' = outgoingTeleport
                 /\ teleportDenied(r) =>
                        IF matches(r)
                        THEN outgoingTeleport' = Status("Denied")
                        ELSE outgoingTeleport' = outgoingTeleport
                 /\ teleportTimeout(r) =>
                        IF matches(r)
                        THEN outgoingTeleport' = Status("Timeout")
                        ELSE outgoingTeleport' = outgoingTeleport
      ]_vars

\* C2: emitTeleportRequest creates an outgoing record only when outgoingTeleport is
\* Default or a terminal status; while a request is Pending a further
\* emitTeleportRequest does not replace it.
C2_NoRequestWhilePending ==
    [][\A to \in PlayerIds, time \in Times :
           emitTeleportRequest(to, time) /\ outgoingTeleport.typeof = "object" =>
               outgoingTeleport' = outgoingTeleport
      ]_vars

\* C3: the incoming list never holds two records with the same fromPlayerId and
\* toPlayerId that differ only in time.
C3_OneRequestPerRequester ==
    ~ \E i, j \in 1 .. Len(incomingTeleports) :
          /\ incomingTeleports[i].fromPlayerId = incomingTeleports[j].fromPlayerId
          /\ incomingTeleports[i].toPlayerId = incomingTeleports[j].toPlayerId
          /\ incomingTeleports[i].time # incomingTeleports[j].time

\* C4: emitTeleportRequest of an id absent from the roster produces no Pending
\* outgoingTeleport (it is left as it was), sends no teleportRequest, and sends
\* exactly one teleportFailed.
C4_AbsentTargetFails ==
    [][lastCall'.op = "emitTeleportRequest" => \A to \in PlayerIds, time \in Times :
           (\A i \in 1 .. Len(players) : players[i].id # to) /\ emitTeleportRequest(to, time) =>
               /\ outgoingTeleport' = outgoingTeleport
               /\ sent' = <<[event |-> "teleportFailed",
                             request |-> [fromPlayerId |-> userID, toPlayerId |-> to,
                                          time |-> time]]>>
      ]_vars

\* C4 happens: a request of a player who is not in the roster was answered with
\* a single teleportFailed
C4_Witness ==
    /\ lastCall = [op |-> "emitTeleportRequest"]
    /\ Len(sent) = 1
    /\ sent[1].event = "teleportFailed"
    /\ \A i \in 1 .. Len(players) : players[i].id # sent[1].request.toPlayerId

\* C5: adding a record value-equal to one of the list leaves the list unchanged and
\* emits no incomingTeleportsChange; removing a record that is not in the list
\* leaves the list unchanged and emits no incomingTeleportsChange; the list never
\* holds two value-equal records.
C5_DedupByValue ==
    /\ [](\A i, j \in 1 .. Len(incomingTeleports) :
              isEqual(incomingTeleports[i], incomingTeleports[j]) => i = j)
    /\ [][lastCall'.op \in {"teleportRequest", "teleportCanceled"} =>
          \A request \in TeleportRequest :
              LET present == \E i \in 1 .. Len(incomingTeleports) :
                                 Wire(incomingTeleports[i]) = request
              IN  /\ teleportRequest(request) /\ request.toPlayerId = userID /\ present =>
                         incomingTeleports' = incomingTeleports /\ notified' = <<>>
                  /\ teleportCanceled(request) /\ request.toPlayerId = userID /\ ~present =>
                         incomingTeleports' = incomingTeleports /\ notified' = <<>>
         ]_vars

\* C5 happens: a request addressed to us whose value the list already held was
\* received, and nothing was notified
C5_Witness ==
    /\ lastCall.op = "teleportRequest"
    /\ lastCall.request.toPlayerId = userID
    /\ \E i \in 1 .. Len(incomingTeleports) : Wire(incomingTeleports[i]) = lastCall.request
    /\ notified = <<>>

\* C6: emitTeleportAccepted / emitTeleportDenied of a record value-equal to one of
\* the incoming list (the same object or not) removes that record, sends exactly
\* one teleportAccepted / teleportDenied and no teleportFailed.
C6_AcceptDenyByValue ==
    [][\A request \in CallerRequests :
           (\E i \in 1 .. Len(incomingTeleports) : isEqual(incomingTeleports[i], request)) =>
               /\ emitTeleportAccepted(request) =>
                      /\ incomingTeleports' =
                             SelectSeq(incomingTeleports, LAMBDA t : ~isEqual(t, request))
                      /\ sent' = <<[event |-> "teleportAccepted", request |-> Wire(request)]>>
               /\ emitTeleportDenied(request) =>
                      /\ incomingTeleports' =
                             SelectSeq(incomingTeleports, LAMBDA t : ~isEqual(t, request))
                      /\ sent' = <<[event |-> "teleportDenied", request |-> Wire(request)]>>
      ]_vars

\* C7: emitTeleportAccepted / emitTeleportDenied of a record that is not in the
\* incoming list sends exactly one teleportFailed for that record, no
\* teleportAccepted / teleportDenied, and leaves the list unchanged.
C7_AbsentRecordFails ==
    [][lastCall'.op \in {"emitTeleportAccepted", "emitTeleportDenied"} =>
       \A request \in CallerRequests :
           /\ emitTeleportAccepted(request) \/ emitTeleportDenied(request)
           /\ ~ \E i \in 1 .. Len(incomingTeleports) : isEqual(incomingTeleports[i], request)
           => /\ incomingTeleports' = incomingTeleports
              /\ sent' = <<[event |-> "teleportFailed", request |-> Wire(request)]>>
      ]_vars

\* C7 happens: a record no entry of a non-empty list equals was accepted and
\* answered with a single teleportFailed
C7_Witness ==
    /\ lastCall.op = "emitTeleportAccepted"
    /\ incomingTeleports # <<>>
    /\ ~ \E i \in 1 .. Len(incomingTeleports) :
             isEqual(incomingTeleports[i], lastCall.request)
    /\ sent = <<[event |-> "teleportFailed", request |-> Wire(lastCall.request)]>>

\* C8: emitTeleportCanceled(toPlayerId) sets outgoingTeleport to Cancelled and sends
\* exactly one teleportCanceled carrying the outgoing record if and only if
\* outgoingTeleport is a Pending record to toPlayerId; otherwise it sends nothing
\* and leaves outgoingTeleport unchanged.
C8_CancelOnlyPendingTarget ==
    [][lastCall'.op = "emitTeleportCanceled" => \A to \in PlayerIds :
           emitTeleportCanceled(to) =>
               IF outgoingTeleport.typeof = "object" /\ outgoingTeleport.toPlayerId = to
               THEN /\ outgoingTeleport' = Status("Cancelled")
                    /\ sent' = <<[event |-> "teleportCanceled",
                                  request |-> Wire(outgoingTeleport)]>>
               ELSE /\ outgoingTeleport' = outgoingTeleport
                    /\ sent' = <<>>
      ]_vars

\* C8 happens: a pending request was cancelled and the cancel sent to its target
C8_Witness ==
    /\ lastCall = [op |-> "emitTeleportCanceled"]
    /\ outgoingTeleport = Status("Cancelled")
    /\ Len(sent) = 1
    /\ sent[1].event = "teleportCanceled"
    /\ sent[1].request.fromPlayerId = userID

C10_VanishedTargetFails ==
    [][lastCall'.op = "teleportAccepted" => \A request \in TeleportRequest :
           /\ request.fromPlayerId = userID
           /\ outgoingTeleport.typeof = "object"
           /\ outgoingTeleport.toPlayerId = request.toPlayerId
           /\ teleportAccepted(request)
           /\ \A i \in 1 .. Len(players) : players[i].id # request.toPlayerId
           => /\ sent' = <<[event |-> "teleportFailed", request |-> request]>>
              /\ ourLocation' = ourLocation
              /\ players' = players
      ]_vars

\* C10 happens: the accept of a request whose target has left the roster was
\* answered with a single teleportFailed
C10_Witness ==
    /\ lastCall = [op |-> "teleportAccepted"]
    /\ Len(sent) = 1
    /\ sent[1].event = "teleportFailed"
    /\ \A i \in 1 .. Len(players) : players[i].id # sent[1].request.toPlayerId

\* C11: when _teleportOurPlayerTo throws inside the teleportAccepted handler (our
\* player's game objects are not created) the exception is caught: the handler
\* completes, sends exactly one teleportFailed and no teleportSuccess, and our
\* player is not moved.
C11_ExceptionBecomesFailure ==
    [][lastCall'.op = "teleportAccepted" => \A request \in TeleportRequest :
           /\ isOurCurrentRequest(request)
           /\ Cardinality({i \in 1 .. Len(players) : players[i].id = request.toPlayerId}) = 1
           /\ ~gameObjects
           /\ teleportAccepted(request)
           => /\ sent' = <<[event |-> "teleportFailed", request |-> request]>>
              /\ ourLocation' = ourLocation
      ]_vars

\* C11 happens: the accept of a request whose target is in the roster was answered
\* with a single teleportFailed because our game objects do not exist
C11_Witness ==
    /\ lastCall.op = "teleportAccepted"
    /\ ~gameObjects
    /\ Len(sent) = 1
    /\ sent[1].event = "teleportFailed"
    /\ Cardinality({i \in 1 .. Len(players) :
                        players[i].id = sent[1].request.toPlayerId}) = 1

\* C12: a teleportAccepted event whose fromPlayerId is not our player, or whose
\* toPlayerId is not the target of the current outgoing record, changes neither
\* outgoingTeleport nor our location and sends neither teleportSuccess nor
\* teleportFailed.  (Stated as: a teleportAccepted step either changes and sends
\* nothing, or is the handling of no such event.)
C12_StaleAcceptIgnored ==
    [][lastCall'.op = "teleportAccepted" =>
           \/ /\ outgoingTeleport' = outgoingTeleport
              /\ ourLocation' = ourLocation
              /\ players' = players
              /\ sent' = <<>>
           \/ \A request \in TeleportRequest :
                  ~ /\ \/ request.fromPlayerId # userID
                       \/ outgoingTeleport.typeof = "string"
                       \/ request.toPlayerId # outgoingTeleport.toPlayerId
                    /\ teleportAccepted(request)
      ]_vars

\* C12 happens: an accept arrived while a request was pending and was ignored
C12_Witness ==
    /\ lastCall.op = "teleportAccepted"
    /\ outgoingTeleport.typeof = "object"
    /\ sent = <<>>

\* C13: a teleportDenied event sets outgoingTeleport to Denied if and only if its
\* fromPlayerId is our player and its toPlayerId is the target of the current
\* Pending record; otherwise outgoingTeleport is unchanged.  (Stated as: a
\* teleportDenied step that does not end in Denied is not the handling of such an
\* event, whatever its time, and one that changes outgoingTeleport is not the
\* handling of another.)
C13_DenyOnlyCurrentRequest ==
    [][lastCall'.op = "teleportDenied" =>
           LET current(request) ==
                   /\ request.fromPlayerId = userID
                   /\ outgoingTeleport.typeof = "object"
                   /\ request.toPlayerId = outgoingTeleport.toPlayerId
               currentRequest(time) ==
                   [fromPlayerId |-> userID, toPlayerId |-> outgoingTeleport.toPlayerId,
                    time |-> time]
           IN  /\ \/ outgoingTeleport' = Status("Denied")
                  \/ outgoingTeleport.typeof # "object"
                  \/ \A time \in Times : ~teleportDenied(currentRequest(time))
               /\ \/ outgoingTeleport' = outgoingTeleport
                  \/ \A request \in TeleportRequest :
                         ~(~current(request) /\ teleportDenied(request))
      ]_vars

\* C13 happens: a deny of the pending request has set Denied
C13_Witness ==
    /\ lastCall.op = "teleportDenied"
    /\ outgoingTeleport = Status("Denied")
    /\ notified = <<"outgoingTeleportChange">>

\* C14: a teleportRequest event is appended at the end of the incoming list (unless
\* a value-equal record is there) and incomingTeleportsChange is notified if and
\* only if its toPlayerId is our player's id; a request addressed to another
\* player leaves the list unchanged.
C14_RequestAppendedForUs ==
    [][lastCall'.op = "teleportRequest" => \A request \in TeleportRequest :
           teleportRequest(request) =>
               IF /\ request.toPlayerId = userID
                  /\ ~ \E i \in 1 .. Len(incomingTeleports) : incomingTeleports[i] = request
               THEN /\ incomingTeleports' = Append(incomingTeleports, request)
                    /\ notified' = <<"incomingTeleportsChange">>
               ELSE /\ incomingTeleports' = incomingTeleports
                    /\ notified' = <<>>
      ]_vars

\* C14 happens: a request addressed to us was appended behind an earlier one
C14_Witness ==
    /\ lastCall.op = "teleportRequest"
    /\ Len(incomingTeleports) >= 2
    /\ incomingTeleports[Len(incomingTeleports)] = lastCall.request
    /\ notified = <<"incomingTeleportsChange">>

\* C15: a teleportCanceled event removes the value-equal record from the incoming
\* list and notifies if and only if such a record exists and the event's
\* toPlayerId is our player; otherwise the list is unchanged and nothing is
\* notified.
C15_CancelRemovesByValue ==
    [][lastCall'.op = "teleportCanceled" => \A request \in TeleportRequest :
           teleportCanceled(request) =>
               IF /\ request.toPlayerId = userID
                  /\ \E i \in 1 .. Len(incomingTeleports) : incomingTeleports[i] = request
               THEN /\ incomingTeleports' =
                           SelectSeq(incomingTeleports, LAMBDA t : t # request)
                    /\ Len(incomingTeleports') = Len(incomingTeleports) - 1
                    /\ notified' = <<"incomingTeleportsChange">>
               ELSE /\ incomingTeleports' = incomingTeleports
                    /\ notified' = <<>>
      ]_vars

\* C15 happens: a cancel addressed to us has removed its record and left another
C15_Witness ==
    /\ lastCall.op = "teleportCanceled"
    /\ lastCall.request.toPlayerId = userID
    /\ incomingTeleports # <<>>
    /\ \A i \in 1 .. Len(incomingTeleports) : incomingTeleports[i] # lastCall.request
    /\ notified = <<"incomingTeleportsChange">>

\* C16: when the countdown of a Pending request reaches 0 (the target never
\* responded), outgoingTeleport becomes Timeout and the countdown stops.
C16_CountdownEndsInTimeout ==
    [][tick /\ timerValue' = 0 /\ outgoingTeleport.typeof = "object" =>
           /\ outgoingTeleport' = Status("Timeout")
           /\ timerInterval' # "running"
      ]_vars

\* C17: when the countdown reaches 0 while a request is outstanding, a
\* teleportTimeout event carrying that request is sent to the server.
C17_TimeoutIsSent ==
    [][tick /\ timerValue' = 0 /\ outgoingTeleport.typeof = "object" =>
           \E k \in 1 .. Len(sent') :
               sent'[k] = [event |-> "teleportTimeout", request |-> Wire(outgoingTeleport)]
      ]_vars

\* C18: every step that takes outgoingTeleport from Pending to a terminal status,
\* and every disconnect(), stops the countdown: no setInterval timer runs afterwards.
C18_TerminalStopsCountdown ==
    [][(outgoingTeleport.typeof = "object" /\ outgoingTeleport'.typeof = "string")
           \/ lastCall'.op = "disconnect"
       => intervals' = 0
      ]_vars

\* C19: at most one setInterval timer of the countdown runs at any time.
C19_SingleInterval == intervals <= 1

\* C20: disconnect() sends exactly one teleportDenied for every record of the
\* incoming list and, if outgoingTeleport is a Pending record, exactly one
\* teleportCanceled for it, all before the socket is disconnected; afterwards the
\* incoming list is empty and outgoingTeleport is not Pending.
C20_DisconnectClearsTeleports ==
    [][disconnect =>
           LET n == Len(incomingTeleports)
               pending == outgoingTeleport.typeof = "object"
           IN  /\ Len(sent') = n + (IF pending THEN 1 ELSE 0)
               /\ \A i \in 1 .. n :
                      sent'[i] = [event |-> "teleportDenied", request |-> incomingTeleports[i]]
               /\ pending => sent'[n + 1] = [event |-> "teleportCanceled",
                                             request |-> Wire(outgoingTeleport)]
               /\ incomingTeleports' = <<>>
               /\ outgoingTeleport'.typeof = "string"
               /\ connected /\ ~connected'
      ]_vars

\* C20 happens: a disconnect has denied two incoming requests and cancelled the
\* outgoing one
C20_Witness ==
    /\ lastCall.op = "disconnect"
    /\ ~connected
    /\ Len(sent) = 3
    /\ sent[1].event = "teleportDenied"
    /\ sent[2].event = "teleportDenied"
    /\ sent[3].event = "teleportCanceled"
    /\ incomingTeleports = <<>>
    /\ outgoingTeleport = Status("Cancelled")

\* C21: on a townClosing event the controller becomes disconnected (the login
\* controller holds no town controller), every request of the incoming list is
\* denied and the list emptied, a pending outgoing request is cancelled, and
\* 'disconnect' is emitted exactly once.
C21_TownClosingClears ==
    [][townClosing =>
           /\ Len(SelectSeq(notified', LAMBDA e : e = "disconnect")) = 1
           /\ loginController' = "null"
           /\ incomingTeleports' = <<>>
           /\ \A i \in 1 .. Len(incomingTeleports) :
                  \E j \in 1 .. Len(sent') :
                      sent'[j] = [event |-> "teleportDenied",
                                  request |-> incomingTeleports[i]]
           /\ outgoingTeleport.typeof = "object" =>
                  /\ outgoingTeleport' = Status("Cancelled")
                  /\ \E j \in 1 .. Len(sent') :
                         sent'[j] = [event |-> "teleportCanceled",
                                     request |-> Wire(outgoingTeleport)]
      ]_vars

\* C22: the promise of connect() becomes resolved only in the step that receives
\* the 'initialize' snapshot, and then the roster, the interactables, the local
\* identity and the session metadata are those of the snapshot; the transport's
\* connect leaves the promise pending; a transport disconnect while the promise is
\* pending rejects it.
C22_ConnectResolvesOnSnapshot ==
    [][/\ (connectPromise' = "resolved" /\ connectPromise # "resolved") =>
              /\ lastCall'.op = "initialize"
              /\ \E initialData \in TownJoinResponse :
                     /\ initialize(initialData)
                     /\ [i \in 1 .. Len(players') |->
                            [id |-> players'[i].id, location |-> players'[i].location]]
                          = initialData.currentPlayers
                     /\ Len(conversationAreas') + Len(viewingAreas')
                          = Len(initialData.interactables)
                     /\ \A i \in 1 .. Len(conversationAreas') :
                            \E k \in 1 .. Len(initialData.interactables) :
                                initialData.interactables[k].id = conversationAreas'[i].id
                     /\ \A i \in 1 .. Len(viewingAreas') :
                            \E k \in 1 .. Len(initialData.interactables) :
                                initialData.interactables[k].id = viewingAreas'[i].id
                     /\ _userID' = initialData.userID
                     /\ _ourPlayer' = "defined"
                     /\ \E i \in 1 .. Len(players') :
                            players'[i].isOurPlayer /\ players'[i].id = initialData.userID
                     /\ providerVideoToken' = initialData.providerVideoToken
                     /\ friendlyName' = initialData.friendlyName
                     /\ townIsPubliclyListed' = initialData.isPubliclyListed
                     /\ sessionToken' = initialData.sessionToken
       /\ socketConnect => connectPromise' = "pending"
       /\ (socketDisconnect /\ connectPromise = "pending") => connectPromise' = "rejected"
      ]_vars

\* C22 happens: connect() has just resolved on a snapshot with two players and
\* two interactables
C22_Witness ==
    /\ lastCall.op = "initialize"
    /\ connectPromise = "resolved"
    /\ Len(players) = 2
    /\ Len(conversationAreas) = 1
    /\ Len(viewingAreas) = 1

\* C23: no two roster entries have the same id, and a playerJoined for an id that is
\* already in the roster inserts nothing.
C23_UniqueRosterIds ==
    /\ [](\A i, j \in 1 .. Len(players) : players[i].id = players[j].id => i = j)
    /\ [][\A newPlayer \in ServerPlayerModels :
              playerJoined(newPlayer)
              /\ (\E i \in 1 .. Len(players) : players[i].id = newPlayer.id) =>
                  players' = players
         ]_vars

\* C24: once the snapshot has been applied, the roster holds an entry with the local
\* participant's id.
C24_LocalIdInRoster ==
    _userID # "undefined" => \E i \in 1 .. Len(players) : players[i].id = _userID

\* C25: the playerMoved listener run a second time on the same event about a remote
\* participant changes neither the roster nor our location; a playerMoved event
\* about the local participant leaves x, y, rotation and moving of our location as
\* they are and takes interactableID from the event.
C25_PlayerMovedIdempotent ==
    [][lastCall'.op = "playerMoved" => \A movedPlayer \in ServerPlayerModels :
           playerMoved(movedPlayer) =>
               /\ movedPlayer.id # userID =>
                      /\ playerMovedPlayers(players', movedPlayer) = players'
                      /\ playerMovedOurLocation(players', ourLocation', movedPlayer)
                           = ourLocation'
                      /\ \E i \in 1 .. Len(players') :
                             /\ players'[i].id = movedPlayer.id
                             /\ players'[i].location = movedPlayer.location
               /\ ourLocation'.x = ourLocation.x
               /\ ourLocation'.y = ourLocation.y
               /\ ourLocation'.rotation = ourLocation.rotation
               /\ ourLocation'.moving = ourLocation.moving
               /\ (\E i \in 1 .. Len(players) :
                       players[i].isOurPlayer /\ findPlayer(movedPlayer.id) = i) =>
                      ourLocation'.interactableID = movedPlayer.location.interactableID
      ]_vars

\* C25 happens: a playerMoved event about our player, elsewhere and in an
\* interactable, has changed the interactableID of our location and nothing else
C25_Witness ==
    /\ lastCall.op = "playerMoved"
    /\ ourLocation = [LocA EXCEPT !.interactableID = "area1"]
    /\ \E i \in 1 .. Len(players) : ~players[i].isOurPlayer /\ players[i].location = LocBInArea

\* C26: a doNotDisturbChange (outgoingTeleportTimerChange) event changes the
\* doNotDisturb (outgoingTeleportTimer) of the roster entries whose id is the event's
\* playerId, when that id is not the local player's, and nothing else: an event that
\* names the local player or an id that is not in the roster changes no player's
\* doNotDisturb or timer.
C26_PlayerInfoPatchesRemoteOnly ==
    [][/\ \A playerInfo \in DoNotDisturbInfo :
              doNotDisturbChange(playerInfo) =>
                  /\ doNotDisturb' = doNotDisturb
                  /\ outgoingTeleportTimer' = outgoingTeleportTimer
                  /\ players' = [i \in 1 .. Len(players) |->
                         IF players[i].id = playerInfo.playerId /\ playerInfo.playerId # userID
                         THEN [players[i] EXCEPT !.doNotDisturb = playerInfo.state]
                         ELSE players[i]]
       /\ \A playerInfo \in OutgoingTeleportTimerInfo :
              outgoingTeleportTimerChange(playerInfo) =>
                  /\ doNotDisturb' = doNotDisturb
                  /\ outgoingTeleportTimer' = outgoingTeleportTimer
                  /\ Len(players') = Len(players)
                  /\ \A i \in 1 .. Len(players) :
                         /\ outgoingTeleportTimerOf(players'[i]) =
                                IF players[i].id = playerInfo.playerId
                                   /\ playerInfo.playerId # userID
                                THEN playerInfo.state
                                ELSE outgoingTeleportTimerOf(players[i])
                         /\ players'[i].id = players[i].id
                         /\ players'[i].location = players[i].location
                         /\ players'[i].isOurPlayer = players[i].isOurPlayer
                         /\ players'[i].sharesLocation = players[i].sharesLocation
                         /\ players'[i].doNotDisturb = players[i].doNotDisturb
      ]_vars

\* C26 happens: a doNotDisturbChange event has switched on the do not disturb of a
\* remote player whose countdown an earlier event had set, and ours is off
C26_Witness ==
    /\ lastCall.op = "doNotDisturbChange"
    /\ ~doNotDisturb
    /\ \E i \in 1 .. Len(players) :
           /\ ~players[i].isOurPlayer
           /\ players[i].doNotDisturb
           /\ outgoingTeleportTimerOf(players[i]) # Undefined

C28_EmptinessFlipNotifies ==
    [][lastCall'.op = "interactableUpdate" => \A interactable \in ConversationAreaModels :
           LET k == findArea(conversationAreas, interactable.id)
               notifications ==
                   Len(SelectSeq(notified', LAMBDA e : e = "conversationAreasChanged"))
           IN  k # 0 /\ interactableUpdate(interactable) =>
                   /\ conversationAreas'[k].topic = interactable.topic
                   /\ conversationAreas'[k].occupants =
                          occupantsOf(players, interactable.occupantsByID)
                   /\ notifications =
                          IF (Len(conversationAreas[k].occupants) = 0)
                                 # (Len(conversationAreas'[k].occupants) = 0)
                          THEN 1
                          ELSE 0
      ]_vars

\* C28 happens: an update has given a conversation area that had an occupant a
\* second one and a topic, and nothing was notified
C28_Witness ==
    /\ lastCall.op = "interactableUpdate"
    /\ \E k \in 1 .. Len(conversationAreas) :
           /\ Len(conversationAreas[k].occupants) = 2
           /\ conversationAreas[k].topic = "topic1"
    /\ notified = <<>>

\* C29: an interactableUpdate whose id is the id of no conversation area and of no
\* viewing area of the town creates no area, changes no area, and is surfaced: the
\* listener notifies its observers of the failed lookup.
C29_UnknownAreaSurfaced ==
    [][lastCall'.op = "interactableUpdate" =>
       \A interactable \in ConversationAreaModels \cup ViewingAreaModels :
           /\ findArea(conversationAreas, interactable.id) = 0
           /\ findArea(viewingAreas, interactable.id) = 0
           /\ interactableUpdate(interactable) =>
               /\ conversationAreas' = conversationAreas
               /\ viewingAreas' = viewingAreas
               /\ notified' # <<>>
      ]_vars

\* C30 as claimed: nearbyPlayers() returns exactly the roster's players p such that
\* p and the local player have the same non-empty interactableID, or they do not
\* and their distance is below 80 (dx * dx + dy * dy < 6400).
C30_NearbySharedZoneElseDistance ==
    [][nearbyPlayersCalled =>
           LET dx(p) == p.location.x - ourLocation.x
               dy(p) == p.location.y - ourLocation.y
               shared(p) == /\ ourLocation.interactableID # "none"
                            /\ p.location.interactableID = ourLocation.interactableID
               claimed == SelectSeq(players, LAMBDA p :
                              shared(p) \/ (~shared(p) /\ dx(p) * dx(p) + dy(p) * dy(p) < 6400))
           IN  nearby' = [i \in 1 .. Len(claimed) |-> claimed[i].id]
      ]_vars

\* C30 as amended: nearbyPlayers() returns exactly the roster's players p such that
\* p and the local player have the same non-empty interactableID, or neither of
\* them has an interactableID and their distance is below 80
\* (dx * dx + dy * dy < 6400).
C30_NearbySharedZoneOrBothOutside ==
    [][nearbyPlayersCalled =>
           LET dx(p) == p.location.x - ourLocation.x
               dy(p) == p.location.y - ourLocation.y
               shared(p) == /\ ourLocation.interactableID # "none"
                            /\ p.location.interactableID = ourLocation.interactableID
               outside(p) == /\ ourLocation.interactableID = "none"
                             /\ p.location.interactableID = "none"
               amended == SelectSeq(players, LAMBDA p :
                              shared(p) \/ (outside(p) /\ dx(p) * dx(p) + dy(p) * dy(p) < 6400))
           IN  nearby' = [i \in 1 .. Len(amended) |-> amended[i].id]
      ]_vars

\* C30 happens: nearbyPlayers() was called with our player in an interactable and
\* another player 79 away and in none, and returned our player alone
C30_Witness ==
    /\ lastCall.op = "nearbyPlayers"
    /\ ourLocation = [LocA EXCEPT !.interactableID = "area1"]
    /\ \E i \in 1 .. Len(players) : ~players[i].isOurPlayer /\ players[i].location = LocNear
    /\ nearby = <<userID>>

\* C31 as stated: a teleportAccepted event that makes outgoingTeleport Accepted found
\* the target in the roster and moved our player to the target's location.
C31_AcceptedOnlyWhenMoved ==
    [][(/\ lastCall'.op = "teleportAccepted"
        /\ outgoingTeleport.typeof = "object"
        /\ outgoingTeleport' = Status("Accepted"))
       => /\ \E i \in 1 .. Len(players) :
                 /\ players[i].id = outgoingTeleport.toPlayerId
                 /\ ourLocation' = players[i].location
          /\ \E k \in 1 .. Len(sent') : sent'[k].event = "playerMovement"
      ]_vars

\* C31 amended: a teleportAccepted event makes a Pending outgoingTeleport Accepted
\* exactly when it is from our player and to the target of the Pending record, also
\* when the target is not found or moving our player throws; it is then answered
\* once, with teleportSuccess after our player was moved to the location of the one
\* roster entry with the target's id, and with teleportFailed, our player not having
\* moved, in every other case.  (Exactly when: a step that does not end in Accepted is
\* not the handling of such an event, and one that does is not the handling of another.)
C31_AcceptedWhenMatched ==
    [][(lastCall'.op = "teleportAccepted" /\ outgoingTeleport.typeof = "object") =>
           LET target == outgoingTeleport.toPlayerId
               entries == {i \in 1 .. Len(players) : players[i].id = target}
               answers == SelectSeq(sent', LAMBDA e : e.event \in {"teleportSuccess",
                                                                  "teleportFailed"})
           IN  /\ outgoingTeleport' \in {Status("Accepted"), outgoingTeleport}
               /\ \/ outgoingTeleport' = Status("Accepted")
                  \/ \A time \in Times :
                         ~teleportAccepted([fromPlayerId |-> userID, toPlayerId |-> target,
                                            time |-> time])
               /\ \/ outgoingTeleport' # Status("Accepted")
                  \/ \A request \in TeleportRequest :
                         (request.fromPlayerId # userID \/ request.toPlayerId # target)
                             => ~teleportAccepted(request)
               /\ outgoingTeleport' = Status("Accepted") =>
                      /\ Len(answers) = 1
                      /\ answers[1].request.fromPlayerId = userID
                      /\ answers[1].request.toPlayerId = target
                      /\ answers[1].event = "teleportSuccess"
                             <=> (Cardinality(entries) = 1 /\ gameObjects)
                      /\ answers[1].event = "teleportSuccess" =>
                             \E i \in entries : ourLocation' = players[i].location
                      /\ answers[1].event = "teleportFailed" =>
                             (ourLocation' = ourLocation /\ players' = players)
      ]_vars

\* C31 happens: the accept of the pending request made outgoingTeleport Accepted
\* although its target is in no roster entry, and was answered with teleportFailed
C31_Witness ==
    /\ lastCall.op = "teleportAccepted"
    /\ outgoingTeleport = Status("Accepted")
    /\ gameObjects
    /\ Len(sent) = 1
    /\ sent[1].event = "teleportFailed"
    /\ sent[1].request.fromPlayerId = userID
    /\ \A i \in 1 .. Len(players) : players[i].id # sent[1].request.toPlayerId

\* C32: a teleportAccepted event moves our player or resolves the outgoing request
\* only if its record is value-equal (fromPlayerId, toPlayerId and time) to the
\* Pending record: the accept of an earlier request to the same target, arriving
\* while a newer request to that target is Pending, changes neither outgoingTeleport
\* nor our location.  (Stated as: a teleportAccepted step either changes neither, or
\* is the handling of no event that differs from the Pending record.)
C32_AcceptOnlyValueEqual ==
    [][lastCall'.op = "teleportAccepted" =>
           \/ /\ outgoingTeleport' = outgoingTeleport
              /\ ourLocation' = ourLocation
              /\ players' = players
           \/ \A request \in TeleportRequest :
                  (outgoingTeleport.typeof = "string" \/ Wire(outgoingTeleport) # request)
                      => ~teleportAccepted(request)
      ]_vars

\* C33: while outgoingTeleport is a status (Default, Accepted, Denied, Cancelled or
\* Timeout) and not a Pending record, a teleportAccepted or teleportDenied event
\* changes neither outgoingTeleport nor our location nor the roster and sends nothing,
\* in particular no teleportSuccess and no teleportFailed.
C33_NoPendingNoEffect ==
    [][(/\ lastCall'.op \in {"teleportAccepted", "teleportDenied"}
        /\ outgoingTeleport.typeof = "string")
       => /\ outgoingTeleport' = outgoingTeleport
          /\ ourLocation' = ourLocation
          /\ players' = players
          /\ sent' = <<>>
          /\ notified' = <<>>
      ]_vars

\* C33 happens: an accept arrived after the request had been cancelled locally, with
\* the target in the roster and our game objects created, and our player is where
\* the session started
C33_Witness ==
    /\ lastCall.op = "teleportAccepted"
    /\ outgoingTeleport = Status("Cancelled")
    /\ gameObjects
    /\ ourLocation = LocA
    /\ \E i \in 1 .. Len(players) : ~players[i].isOurPlayer /\ players[i].location = LocB
    /\ sent = <<>>

\* C34: while our player's doNotDisturb is true its incoming list is empty: a
\* teleportRequest event addressed to our player that arrives after do not disturb
\* was switched on is not kept.
C34_DoNotDisturbKeepsIncomingEmpty == doNotDisturb => incomingTeleports = <<>>

\* C35: after a playerDisconnect event for player P was processed, the incoming list
\* holds no request from P and outgoingTeleport is not a Pending record to P.
C35_DisconnectClearsRequestsOfPlayer ==
    [][lastCall'.op = "playerDisconnect" =>
           \A id \in PlayerIds :
               playerDisconnect(id) =>
                   /\ \A i \in 1 .. Len(incomingTeleports') :
                          incomingTeleports'[i].fromPlayerId # id
                   /\ ~(outgoingTeleport'.typeof = "object"
                        /\ outgoingTeleport'.toPlayerId = id)
      ]_vars

\* C36: a playerMoved event about our player changes no other player's location, its
\* interactableID included, also after a successful teleport: our location and the
\* target's location are not one shared object.
C36_LocalMoveLeavesRemoteLocations ==
    [][lastCall'.op = "playerMoved" =>
           \A movedPlayer \in ServerPlayerModels :
               (movedPlayer.id = userID /\ playerMoved(movedPlayer)) =>
                   /\ Len(players') = Len(players)
                   /\ \A i \in 1 .. Len(players) :
                          ~players[i].isOurPlayer =>
                              players'[i].location = players[i].location
      ]_vars

\* C37: every value relayed through outgoingTeleportTimerChange is undefined or an
\* integer from 1 up to the start value; after a start the interval callback relays
\* the values below the start value in descending order down to 1, then undefined,
\* and once undefined was relayed it relays nothing until the next start.
C37_RelayedValuesCountDown ==
    [][LET relayed == SelectSeq(sent', LAMBDA e : e.event = "outgoingTeleportTimerChange")
       IN  /\ \A k \in 1 .. Len(relayed) :
                  \/ relayed[k].state = Undefined
                  \/ relayed[k].state.value \in 1 .. MaxStartValue
           /\ lastCall'.op = "tick" =>
                  IF outgoingTeleportTimer = Undefined
                  THEN relayed = <<>>
                  ELSE /\ Len(relayed) = 1
                       /\ relayed[1].state =
                              IF outgoingTeleportTimer.value = 1
                              THEN Undefined
                              ELSE Number(outgoingTeleportTimer.value - 1)
      ]_vars

\* C38: playersChanged is dispatched before the controller's roster is replaced: a
\* listener that reads controller.players during the callback gets the roster of
\* before the step, and the payload is the roster of after it.  playerMoved and
\* conversationAreasChanged are dispatched after the update: the listener reads the
\* roster, the player and the conversation areas as the event describes them.
C38_DispatchOrder ==
    [][LET beforeUpdate(d) == d.players = players /\ d.payload = players'
           playerAfterUpdate(d) ==
               /\ d.players = players'
               /\ \E i \in 1 .. Len(players') : d.payload = players'[i]
       IN  /\ lastCall'.op = "playerJoined" =>
                  \A newPlayer \in JoiningPlayers :
                      playerJoined(newPlayer) =>
                          LET d == playerJoinedListener(players, newPlayer).dispatched
                          IN  /\ eventsOf(d) = <<"playersChanged", "playerMoved">>
                              /\ beforeUpdate(d[1])
                              /\ playerAfterUpdate(d[2])
                              /\ d[2].payload.id = newPlayer.id
                              /\ d[2].payload.location = newPlayer.location
           /\ lastCall'.op = "playerDisconnect" =>
                  \A id \in PlayerIds :
                      playerDisconnect(id) =>
                          LET d == playerDisconnectListener(players, id).dispatched
                          IN  eventsOf(d) = <<"playersChanged">> /\ beforeUpdate(d[1])
           /\ lastCall'.op = "playerMoved" =>
                  \A movedPlayer \in MovedPlayers :
                      playerMoved(movedPlayer) =>
                          LET d == playerMovedDispatched(players, movedPlayer)
                          IN  /\ eventsOf(d) = notified'
                              /\ \A k \in 1 .. Len(d) :
                                     IF d[k].event = "playersChanged"
                                     THEN beforeUpdate(d[k])
                                     ELSE /\ playerAfterUpdate(d[k])
                                          /\ d[k].payload.id = movedPlayer.id
                                          /\ d[k].payload.location.interactableID
                                                 = movedPlayer.location.interactableID
                                          /\ d[k].payload.isOurPlayer
                                                 \/ d[k].payload.location = movedPlayer.location
           /\ lastCall'.op = "interactableUpdate" =>
                  \A interactable \in UpdatedAreas :
                      interactableUpdate(interactable) =>
                          LET d == interactableUpdateDispatched(conversationAreas, players,
                                                                interactable)
                          IN  /\ eventsOf(d) = notified'
                              /\ \A k \in 1 .. Len(d) :
                                     /\ d[k].conversationAreas = conversationAreas'
                                     /\ d[k].payload = conversationAreas'
      ]_vars

\* C38 happens: a player joined our player in the town; the listener of
\* playersChanged read the roster of one and was given the roster of two
C38_Witness ==
    /\ lastCall.op = "playerJoined"
    /\ notified = <<"playersChanged", "playerMoved">>
    /\ Len(players) = 2
    /\ players[1].isOurPlayer

C40_SettersEmitOnDifference ==
    [][/\ lastCall'.op = "emitTeleportRequest" =>
              \A toPlayerId \in PlayerIds, time \in Times :
                  (emitTeleportRequest(toPlayerId, time) /\ _playerInSession(toPlayerId)) =>
                      LET request == Pending([fromPlayerId |-> userID,
                                              toPlayerId |-> toPlayerId, time |-> time])
                      IN  /\ outgoingTeleport' = request
                          /\ notified' = IF outgoingTeleport # request
                                         THEN <<"outgoingTeleportChange">>
                                         ELSE <<>>
       /\ toggleDoNotDisturb =>
              /\ doNotDisturb' = ~doNotDisturb
              /\ \E k \in 1 .. Len(notified') : notified'[k] = "doNotDisturbChange"
      ]_vars

====
